---- MODULE Spec2Model ----
(***************************************************************************)
(* Model of the data-alchemist dashboard: the upload pipeline of the       *)
(* FileUpload component (detectColumnSchema, classifyEntityType,           *)
(* detectRelationships, cleanValue) and the state handlers of the Home     *)
(* page (handleDataUpload, runValidation, updateData, applyAutoFix).       *)
(*                                                                         *)
(* A text (a JavaScript string) is a sequence of one-character strings.    *)
(* A JavaScript value is a record [k, s, n]: k is its type, s its text     *)
(* when it is a string, n its number when it is a number (booleans keep    *)
(* 1 or 0 in n).  Numbers of the model are integers: no text of the model  *)
(* has a fraction or an exponent part.                                     *)
(***************************************************************************)
EXTENDS Integers, Sequences, FiniteSets, TLC

VARIABLES
    order,             \* keys of data / schemas in insertion order
    data,              \* useState data: table name -> rows
    schemas,           \* useState schemas: table name -> TableSchema
    validationErrors,  \* useState validationErrors: sequence of findings
    nOps,              \* number of handler calls so far
    last,              \* the handler call that produced this state
    dcName,            \* detectColumnSchema: the column name it is given
    dcRows,            \* detectColumnSchema: the rows it is given
    dcOut,             \* detectColumnSchema: the ColumnSchema it returned
    fnArgs,            \* a function called on its own: its arguments
    fnRet,             \* a function called on its own: what it returned
    isProcessing,      \* FileUpload: useState isProcessing, table name -> flag
    toasts,            \* the toasts shown so far, oldest first
    businessRules,     \* useState businessRules: sequence of rules
    nlJob,             \* RulesCreator: the processNaturalLanguageRule calls that wait
    now,               \* the clock Date.now() reads
    exportJob,         \* ExportControls: the exportAll calls that wait
    downloads,         \* the files downloaded so far, oldest first
    fileJob,           \* FileUpload: the processFile calls whose parse has not called back
    editingCell,       \* DataGrid: useState editingCell, table name -> the cell in edit
    searchTerm,        \* DataGrid: useState searchTerm, table name -> the text typed
    searchResults      \* useState searchResults: the table and row indices of a search

vars == <<order, data, schemas, validationErrors, nOps, last, dcName, dcRows, dcOut,
          fnArgs, fnRet, isProcessing, toasts, businessRules, nlJob, now,
          exportJob, downloads, fileJob, editingCell, searchTerm, searchResults>>

homeVars == <<order, data, schemas, validationErrors, nOps, last>>

detectVars == <<dcName, dcRows, dcOut>>

\* State of the panels around the page: FileUpload, RulesCreator, ExportControls
fileVars == <<isProcessing, toasts>>

ruleVars == <<businessRules, nlJob, now>>

exportVars == <<exportJob, downloads>>

\* The calls of processFile that wait, the state of each DataGrid, the search of the page
gridVars == <<fileJob, editingCell, searchTerm, searchResults>>

----------------------------------------------------------------------------
(* Characters and texts *)

UpperCase == <<"A","B","C","D","E","F","G","H","I","J","K","L","M",
               "N","O","P","Q","R","S","T","U","V","W","X","Y","Z">>

LowerCase == <<"a","b","c","d","e","f","g","h","i","j","k","l","m",
               "n","o","p","q","r","s","t","u","v","w","x","y","z">>

Digits == <<"0","1","2","3","4","5","6","7","8","9">>

Range(f) == { f[i] : i \in DOMAIN f }

IsUpper(c) == c \in Range(UpperCase)

IsLower(c) == c \in Range(LowerCase)

IsAlpha(c) == IsUpper(c) \/ IsLower(c)

IsDigit(c) == c \in Range(Digits)

IsSpace(c) == c = " "

DigitVal(c) == CHOOSE d \in 0..9 : Digits[d + 1] = c

ToLowerChar(c) ==
    IF IsUpper(c) THEN LowerCase[CHOOSE i \in 1..26 : UpperCase[i] = c] ELSE c

toLowerCase(s) == [i \in 1..Len(s) |-> ToLowerChar(s[i])]

includes(s, sub) ==
    \E i \in 0..(Len(s) - Len(sub)) : SubSeq(s, i + 1, i + Len(sub)) = sub

startsWith(s, p) == Len(p) <= Len(s) /\ SubSeq(s, 1, Len(p)) = p

endsWith(s, p) == Len(p) <= Len(s) /\ SubSeq(s, Len(s) - Len(p) + 1, Len(s)) = p

\* String.prototype.trim
trim(s) ==
    IF \A i \in 1..Len(s) : IsSpace(s[i]) THEN <<>>
    ELSE LET a == CHOOSE i \in 1..Len(s) :
                      ~IsSpace(s[i]) /\ \A j \in 1..(i - 1) : IsSpace(s[j])
             b == CHOOSE i \in 1..Len(s) :
                      ~IsSpace(s[i]) /\ \A j \in (i + 1)..Len(s) : IsSpace(s[j])
         IN  SubSeq(s, a, b)

\* s.split(sep) for a one-character separator
RECURSIVE split(_, _)
split(s, sep) ==
    IF \A i \in 1..Len(s) : s[i] # sep THEN <<s>>
    ELSE LET i == CHOOSE i \in 1..Len(s) :
                      s[i] = sep /\ \A j \in 1..(i - 1) : s[j] # sep
         IN  <<SubSeq(s, 1, i - 1)>> \o split(SubSeq(s, i + 1, Len(s)), sep)

\* parts.join(sep)
RECURSIVE join(_, _)
join(parts, sep) ==
    IF parts = <<>> THEN <<>>
    ELSE IF Len(parts) = 1 THEN parts[1]
    ELSE parts[1] \o sep \o join(Tail(parts), sep)

\* s.replace(/c/g, d)
replaceAll(s, c, d) == [i \in 1..Len(s) |-> IF s[i] = c THEN d ELSE s[i]]

\* The decimal text of an integer (Number.prototype.toString)
RECURSIVE NatToText(_)
NatToText(n) ==
    IF n < 10 THEN <<Digits[n + 1]>>
    ELSE NatToText(n \div 10) \o <<Digits[(n % 10) + 1]>>

NumToText(n) == IF n < 0 THEN <<"-">> \o NatToText(0 - n) ELSE NatToText(n)

RECURSIVE DigitsVal(_)
DigitsVal(ds) ==
    IF ds = <<>> THEN 0
    ELSE DigitsVal(SubSeq(ds, 1, Len(ds) - 1)) * 10 + DigitVal(ds[Len(ds)])

\* Length of the longest prefix of u made of digits
LeadingDigits(u) ==
    CHOOSE k \in 0..Len(u) :
        /\ \A i \in 1..k : IsDigit(u[i])
        /\ (k = Len(u) \/ ~IsDigit(u[k + 1]))

----------------------------------------------------------------------------
(* JavaScript values *)

Str(s) == [k |-> "string", s |-> s, n |-> 0]

Num(n) == [k |-> "number", s |-> <<>>, n |-> n]

Bool(b) == [k |-> "boolean", s |-> <<>>, n |-> IF b THEN 1 ELSE 0]

NaN == [k |-> "NaN", s |-> <<>>, n |-> 0]

Undefined == [k |-> "undefined", s |-> <<>>, n |-> 0]

Null == [k |-> "null", s |-> <<>>, n |-> 0]

EmptyStr == Str(<<>>)

\* String(v)
String(v) ==
    CASE v.k = "string"    -> v.s
      [] v.k = "number"    -> NumToText(v.n)
      [] v.k = "boolean"   -> IF v.n = 1 THEN <<"t","r","u","e">>
                                          ELSE <<"f","a","l","s","e">>
      [] v.k = "NaN"       -> <<"N","a","N">>
      [] v.k = "undefined" -> <<"u","n","d","e","f","i","n","e","d">>
      [] v.k = "null"      -> <<"n","u","l","l">>

\* ToBoolean(v): what `v && ...` and `!v` test
Truthy(v) ==
    CASE v.k = "string"  -> v.s # <<>>
      [] v.k = "number"  -> v.n # 0
      [] v.k = "boolean" -> v.n = 1
      [] OTHER           -> FALSE

\* typeof v
typeof(v) ==
    CASE v.k = "NaN"  -> "number"
      [] v.k = "null" -> "object"
      [] OTHER        -> v.k

\* row[name]: undefined when the row has no such key
Get(row, name) == IF name \in DOMAIN row THEN row[name] ELSE Undefined

\* parseFloat(text): leading blanks, an optional sign, then digits
parseFloat(s) ==
    LET t == IF \A i \in 1..Len(s) : IsSpace(s[i]) THEN <<>>
             ELSE SubSeq(s, CHOOSE i \in 1..Len(s) :
                               ~IsSpace(s[i]) /\ \A j \in 1..(i - 1) : IsSpace(s[j]),
                         Len(s))
        signed == t # <<>> /\ t[1] \in {"-", "+"}
        u == IF signed THEN Tail(t) ELSE t
        d == LeadingDigits(u)
        m == DigitsVal(SubSeq(u, 1, d))
    IN  IF d = 0 THEN NaN
        ELSE Num(IF signed /\ t[1] = "-" THEN 0 - m ELSE m)

\* parseInt(text), radix 10
parseInt(s) ==
    LET t == trim(s)
        signed == t # <<>> /\ t[1] \in {"-", "+"}
        u == IF signed THEN Tail(t) ELSE t
        d == LeadingDigits(u)
        m == DigitsVal(SubSeq(u, 1, d))
    IN  IF d = 0 THEN NaN
        ELSE Num(IF signed /\ t[1] = "-" THEN 0 - m ELSE m)

isNaN(v) == v.k = "NaN"

isFinite(v) == v.k = "number"

\* The texts the model names
Txt ==
    [ clientWords |->
        { <<"p","r","i","o","r","i","t","y">>, <<"r","e","q","u","e","s","t">>,
        <<"b","u","d","g","e","t">> },
      workerWords |->
        { <<"s","k","i","l","l">>, <<"a","v","a","i","l","a","b","l","e">>,
        <<"c","a","p","a","c","i","t","y">>,
        <<"q","u","a","l","i","f","i","c","a","t","i","o","n">> },
      taskWords |->
        { <<"d","u","r","a","t","i","o","n">>, <<"p","h","a","s","e">>,
        <<"c","o","n","c","u","r","r","e","n","t">>, <<"c","a","t","e","g","o","r","y">> },
      client |-> <<"c","l","i","e","n","t">>,
      customer |-> <<"c","u","s","t","o","m","e","r">>,
      worker |-> <<"w","o","r","k","e","r">>,
      employee |-> <<"e","m","p","l","o","y","e","e">>,
      staff |-> <<"s","t","a","f","f">>,
      task |-> <<"t","a","s","k">>,
      job |-> <<"j","o","b">>,
      project |-> <<"p","r","o","j","e","c","t">>,
      tasks |-> <<"t","a","s","k","s">>,
      workers |-> <<"w","o","r","k","e","r","s">>,
      work |-> <<"w","o","r","k">>,
      TaskID |-> <<"T","a","s","k","I","D">>,
      Load |-> <<"L","o","a","d">>,
      Done |-> <<"D","o","n","e">>,
      TA |-> <<"T","A">>,
      TB |-> <<"T","B">>,
      abc |-> <<"a","b","c">>,
      period |-> <<"2","0","2","4","-","1","3">>,
      yes |-> <<"y","e","s">>,
      no |-> <<"n","o">>,
      csv |-> <<".","c","s","v">>,
      xlsx |-> <<".","x","l","s","x">>,
      true |-> <<"t","r","u","e">>,
      longid |-> <<"A","B","C","D","E","F","G","H">>,
      year |-> <<"2","0","2","4">>,
      email |-> <<"a","@","b",".","c","o">>,
      url |-> <<"x",":","y">>,
      list |-> <<"a",",","b">>,
      Capacity |-> <<"C","a","p","a","c","i","t","y">>,
      eight |-> <<"0","0","0","8">>,
      nine |-> <<"0","0","0","9">>,
      nodot |-> <<"a","@","b">>,
      spaced |-> <<"a"," ","@","b",".","c">>,
      apostrophe |-> <<"'","a",",","b">>,
      padded |-> <<" ","a",","," ","b"," ">>,
      jsonArray |-> <<"[","1",",","2","]">>,
      quotedArray |-> <<"[","'","a","'","]">>,
      five |-> <<"5">>,
      Priority |-> <<"P","r","i","o","r","i","t","y">>,
      Phase |-> <<"P","h","a","s","e">>,
      dashId |-> <<"T","a","s","k","-","I","D">>,
      spaceId |-> <<"W","o","r","k","e","r"," ","I","D">>,
      underId |-> <<"c","l","i","e","n","t","_","i","d">>,
      quoteComma |-> <<"a","\"",",","b">>,
      quote |-> <<"a","\"">> ]

----------------------------------------------------------------------------
(* Value matchers of detectColumnSchema *)

\* /^[^\s@]+@[^\s@]+\.[^\s@]+$/.test(s)
emailRegex(s) ==
    \E i \in 1..Len(s) : \E j \in 1..Len(s) :
        /\ s[i] = "@"
        /\ s[j] = "."
        /\ 1 < i
        /\ i + 1 < j
        /\ j < Len(s)
        /\ \A x \in 1..Len(s) : ~IsSpace(s[x]) /\ (s[x] = "@" => x = i)

\* /^[A-Z]\d{3,}$|^[a-zA-Z0-9-_]{8,}$/.test(s)
idPattern(s) ==
    \/ /\ Len(s) >= 4
       /\ IsUpper(s[1])
       /\ \A i \in 2..Len(s) : IsDigit(s[i])
    \/ /\ Len(s) >= 8
       /\ \A i \in 1..Len(s) : IsAlpha(s[i]) \/ IsDigit(s[i]) \/ s[i] \in {"-", "_"}

\* new URL(s) does not throw: a scheme, a colon, and a host for the special schemes
urlParses(s) ==
    LET \* Schemes whose URLs need a host
        SpecialSchemes == { <<"h","t","t","p">>, <<"h","t","t","p","s">>, <<"f","t","p">>,
                            <<"w","s">>, <<"w","s","s">> }
    IN
    \E i \in 2..Len(s) :
        /\ s[i] = ":"
        /\ IsAlpha(s[1])
        /\ \A x \in 2..(i - 1) :
               IsAlpha(s[x]) \/ IsDigit(s[x]) \/ s[x] \in {"+", "-", "."}
        /\ \A x \in 1..Len(s) : ~IsSpace(s[x])
        /\ (toLowerCase(SubSeq(s, 1, i - 1)) \in SpecialSchemes =>
                \E x \in (i + 1)..Len(s) : s[x] \notin {"/", "\\"})

\* The pieces of s between the commas that are outside double quotes
RECURSIVE splitTop(_, _, _, _)
splitTop(s, i, inStr, cur) ==
    IF i > Len(s) THEN <<cur>>
    ELSE IF s[i] = "\"" THEN splitTop(s, i + 1, ~inStr, Append(cur, s[i]))
    ELSE IF s[i] = "," /\ ~inStr THEN <<cur>> \o splitTop(s, i + 1, FALSE, <<>>)
    ELSE splitTop(s, i + 1, inStr, Append(cur, s[i]))

IsJSONNumber(t) ==
    LET u == IF t # <<>> /\ t[1] = "-" THEN Tail(t) ELSE t
    IN  /\ u # <<>>
        /\ \A i \in 1..Len(u) : IsDigit(u[i])
        /\ (Len(u) > 1 => u[1] # "0")

IsJSONString(t) ==
    /\ Len(t) >= 2
    /\ t[1] = "\""
    /\ t[Len(t)] = "\""
    /\ \A i \in 2..(Len(t) - 1) : t[i] \notin {"\"", "\\"}

IsJSONScalar(t) ==
    \/ IsJSONNumber(t)
    \/ IsJSONString(t)
    \/ t \in { <<"t","r","u","e">>, <<"f","a","l","s","e">>, <<"n","u","l","l">> }

\* JSON.parse(s) returns an array (elements are scalars: one level of nesting)
IsJSONArray(s) ==
    LET t == trim(s)
    IN  /\ Len(t) >= 2
        /\ t[1] = "["
        /\ t[Len(t)] = "]"
        /\ LET inner == trim(SubSeq(t, 2, Len(t) - 1))
           IN  \/ inner = <<>>
               \/ \A p \in Range(splitTop(inner, 1, FALSE, <<>>)) : IsJSONScalar(trim(p))

IsJSONObject(s) ==
    LET t == trim(s)
    IN  /\ Len(t) >= 2
        /\ t[1] = "{"
        /\ t[Len(t)] = "}"
        /\ trim(SubSeq(t, 2, Len(t) - 1)) = <<>>

\* JSON.parse(s) does not throw
jsonParses(s) == IsJSONScalar(trim(s)) \/ IsJSONArray(s) \/ IsJSONObject(s)

\* The ECMAScript date-time string format, date-only forms YYYY, YYYY-MM, YYYY-MM-DD
IsoShape(s) ==
    /\ Len(s) \in {4, 7, 10}
    /\ \A i \in 1..Len(s) : IF i \in {5, 8} THEN s[i] = "-" ELSE IsDigit(s[i])

HasDigit(s) == \E i \in 1..Len(s) : IsDigit(s[i])

\* Date.parse is fixed by ECMAScript for texts in the date-time format (NaN when a
\* field is out of range) and is NaN for a text no engine recognises; a text with
\* digits outside that format is left to the engine and is no input of the model.
DateDefined(s) == IsoShape(s) \/ ~HasDigit(s)

\* !isNaN(Date.parse(s))
dateParses(s) ==
    /\ IsoShape(s)
    /\ Len(s) >= 7 => DigitsVal(SubSeq(s, 6, 7)) \in 1..12
    /\ Len(s) = 10 => DigitsVal(SubSeq(s, 9, 10)) \in 1..31

boolValues ==
    { <<"t","r","u","e">>, <<"f","a","l","s","e">>, <<"1">>, <<"0">>,
      <<"y","e","s">>, <<"n","o">>, <<"y">>, <<"n">> }

\* (str.startsWith('[') && str.endsWith(']')) || str.includes(',')
arrayLike(s) == (startsWith(s, <<"[">>) /\ endsWith(s, <<"]">>)) \/ includes(s, <<",">>)

----------------------------------------------------------------------------
(* detectColumnSchema *)

\* A score is the fraction num/den; den = 0 is NaN (a division by samples.length = 0).
Score(num, den) == [num |-> num, den |-> den]

IsNaNScore(x) == x.den = 0

\* x > y on scores: false when either is NaN
GT(x, y) == x.den > 0 /\ y.den > 0 /\ x.num * y.den > y.num * x.den

\* x < y on scores: false when either is NaN
LT(x, y) == x.den > 0 /\ y.den > 0 /\ x.num * y.den < y.num * x.den

SampleCap == 100

TypeOrder == <<"id", "number", "boolean", "date", "email", "url", "json", "array", "string">>

IsEmptyRaw(v) == v = Null \/ v = Undefined \/ v = EmptyStr

RECURSIVE SelectValues(_)
SelectValues(vs) ==
    IF vs = <<>> THEN <<>>
    ELSE (IF IsEmptyRaw(Head(vs)) THEN <<>> ELSE <<Head(vs)>>) \o SelectValues(Tail(vs))

\* data.map(row => row[columnName]).filter(v => v !== null && v !== undefined && v !== '')
columnValues(columnName, rows) ==
    SelectValues([i \in 1..Len(rows) |-> Get(rows[i], columnName)])

\* values.slice(0, Math.min(values.length, 100))
sampleOf(values) ==
    SubSeq(values, 1, IF Len(values) < SampleCap THEN Len(values) ELSE SampleCap)

\* The typeScores object after all the matchers have run
typeScores(lowerName, samples) ==
    LET n == Len(samples)
        named == includes(lowerName, <<"i","d">>) \/ includes(lowerName, <<"k","e","y">>)
        texts == [i \in 1..n |-> String(samples[i])]
    IN  [t \in Range(TypeOrder) |->
            CASE t = "id"      -> Score((IF named THEN 50 * n ELSE 0)
                                            + 30 * Cardinality({ i \in 1..n : idPattern(texts[i]) }), n)
              [] t = "number"  -> Score(100 * Cardinality({ i \in 1..n :
                                            ~isNaN(parseFloat(texts[i])) /\ isFinite(parseFloat(texts[i])) }), n)
              [] t = "boolean" -> Score(100 * Cardinality({ i \in 1..n : toLowerCase(texts[i]) \in boolValues }), n)
              [] t = "date"    -> Score(100 * Cardinality({ i \in 1..n : dateParses(texts[i]) }), n)
              [] t = "email"   -> Score(100 * Cardinality({ i \in 1..n : emailRegex(texts[i]) }), n)
              [] t = "url"     -> Score(100 * Cardinality({ i \in 1..n : urlParses(texts[i]) }), n)
              [] t = "json"    -> Score(100 * Cardinality({ i \in 1..n : jsonParses(texts[i]) }), n)
              [] t = "array"   -> Score(100 * Cardinality({ i \in 1..n : arrayLike(texts[i]) }), n)
              [] t = "string"  -> Score(0, 1)]

\* A reducer that keeps the earlier entry unless the later one is strictly greater
pickBestKeepFirst(scores, a, b) == IF LT(scores[a], scores[b]) THEN b ELSE a

\* The reducer: (a, b) => typeScores[a] > typeScores[b] ? a : b
pickBest(scores, a, b) == IF GT(scores[a], scores[b]) THEN a ELSE b

RECURSIVE reduceFrom(_, _, _)
reduceFrom(scores, a, i) ==
    IF i > Len(TypeOrder) THEN a
    ELSE reduceFrom(scores, pickBest(scores, a, TypeOrder[i]), i + 1)

\* Object.entries(typeScores).reduce(...)[0]
bestTypeOf(scores) == reduceFrom(scores, TypeOrder[1], 2)

\* typeScores[bestType] / 100
confidenceOf(scores, bestType) ==
    Score(scores[bestType].num, scores[bestType].den * 100)

\* bestType === 'string' && confidence < 0.3 ? 'string' : bestType
emittedType(bestType, confidence) ==
    IF bestType = "string" /\ LT(confidence, Score(3, 10)) THEN "string" ELSE bestType

\* data.filter(row => !row[columnName] || row[columnName] === '').length
nullCount(columnName, rows) ==
    Cardinality({ i \in 1..Len(rows) :
        ~Truthy(Get(rows[i], columnName)) \/ Get(rows[i], columnName) = EmptyStr })

\* (nullCount / data.length) < 0.1
requiredOf(columnName, rows) == nullCount(columnName, rows) * 10 < Len(rows)

\* A unique flag that does not ask for more than one value
uniqueOfAny(values) == Cardinality(Range(values)) = Len(values)

\* uniqueValues.size === values.length && values.length > 1
uniqueOf(values) == Cardinality(Range(values)) = Len(values) /\ Len(values) > 1

\* Array.from(new Set(values)): the distinct values in first-seen order
RECURSIVE distinctOf(_)
distinctOf(vs) ==
    IF vs = <<>> THEN <<>>
    ELSE LET front == SubSeq(vs, 1, Len(vs) - 1)
             v == vs[Len(vs)]
         IN  IF v \in Range(front) THEN distinctOf(front)
             ELSE Append(distinctOf(front), v)

Min(S) == CHOOSE x \in S : \A y \in S : x <= y

Max(S) == CHOOSE x \in S : \A y \in S : x >= y

\* The validation object, or undefined (defined = FALSE) when it has no key
validationOf(lowerName, bestType, samples, values) ==
    LET numbers == { parseFloat(String(samples[i])).n : i \in
                        { j \in 1..Len(samples) : ~isNaN(parseFloat(String(samples[j]))) } }
        bounded == bestType = "number" /\ numbers # {}
        priority == includes(lowerName, <<"p","r","i","o","r","i","t","y">>)
                        /\ bestType = "number"
        uniq == distinctOf(values)
        enumerated == Len(uniq) <= 10 /\ Len(uniq) > 1 /\ bestType = "string"
    IN  [defined |-> bounded \/ priority \/ enumerated,
         hasMin  |-> bounded \/ priority,
         min     |-> IF priority THEN 1 ELSE IF bounded THEN Min(numbers) ELSE 0,
         hasMax  |-> bounded \/ priority,
         max     |-> IF priority THEN 5 ELSE IF bounded THEN Max(numbers) ELSE 0,
         hasEnum |-> enumerated,
         enum    |-> IF enumerated THEN [i \in 1..Len(uniq) |-> String(uniq[i])] ELSE <<>>]

detectColumnSchema(columnName, rows) ==
    LET lowerName == toLowerCase(columnName)
        values == columnValues(columnName, rows)
        samples == sampleOf(values)
        scores == typeScores(lowerName, samples)
        bestType == bestTypeOf(scores)
        confidence == confidenceOf(scores, bestType)
    IN  [name       |-> columnName,
         type       |-> emittedType(bestType, confidence),
         required   |-> requiredOf(columnName, rows),
         unique     |-> uniqueOf(values),
         validation |-> validationOf(lowerName, bestType, samples, values),
         confidence |-> confidence]

----------------------------------------------------------------------------
(* classifyEntityType, detectRelationships, findPrimaryKey, cleanValue *)

EntityOrder == <<"clients", "workers", "tasks">>


\* Number of columns whose lower-cased name contains one of the words
ColumnHits(columns, words) ==
    Cardinality({ i \in 1..Len(columns) :
        \E w \in words : includes(toLowerCase(columns[i].name), w) })

\* The scores object after the name-based and the column-based classification
entityScores(tableName, columns, fileName) ==
    LET lowerName == toLowerCase(tableName)
        lowerFileName == toLowerCase(fileName)
    IN  [e \in Range(EntityOrder) |->
            CASE e = "clients" ->
                    (IF \/ includes(lowerName, Txt.client)
                        \/ includes(lowerName, Txt.customer)
                        \/ includes(lowerFileName, Txt.client) THEN 40 ELSE 0)
                    + 15 * ColumnHits(columns, Txt.clientWords)
              [] e = "workers" ->
                    (IF \/ includes(lowerName, Txt.worker)
                        \/ includes(lowerName, Txt.employee)
                        \/ includes(lowerName, Txt.staff)
                        \/ includes(lowerFileName, Txt.worker) THEN 40 ELSE 0)
                    + 15 * ColumnHits(columns, Txt.workerWords)
              [] e = "tasks" ->
                    (IF \/ includes(lowerName, Txt.task)
                        \/ includes(lowerName, Txt.job)
                        \/ includes(lowerName, Txt.project)
                        \/ includes(lowerFileName, Txt.task) THEN 40 ELSE 0)
                    + 15 * ColumnHits(columns, Txt.taskWords)]

\* The reducer: (a, b) => scores[a] > scores[b] ? a : b
pickEntity(scores, a, b) == IF scores[a] > scores[b] THEN a ELSE b

classifyEntityType(tableName, columns, fileName) ==
    LET scores == entityScores(tableName, columns, fileName)
        bestMatch == pickEntity(scores,
                         pickEntity(scores, EntityOrder[1], EntityOrder[2]),
                         EntityOrder[3])
    IN  [entityType |-> bestMatch,
         confidence |-> Score(IF scores[bestMatch] < 100 THEN scores[bestMatch] ELSE 100, 100)]

RelationKeys ==
    << [table |-> <<"t","a","s","k","s">>,
        keys |-> { <<"t","a","s","k","i","d">>, <<"t","a","s","k","_","i","d">> }],
       [table |-> <<"w","o","r","k","e","r","s">>,
        keys |-> { <<"w","o","r","k","e","r","i","d">>,
                   <<"w","o","r","k","e","r","_","i","d">> }],
       [table |-> <<"c","l","i","e","n","t","s">>,
        keys |-> { <<"c","l","i","e","n","t","i","d">>,
                   <<"c","l","i","e","n","t","_","i","d">> }] >>

\* The relationships one column pushes
columnRelationships(column) ==
    LET colName == toLowerCase(column.name)
        rel(i) == IF \E key \in RelationKeys[i].keys : includes(colName, key)
                  THEN << [table |-> RelationKeys[i].table, column |-> column.name,
                           type |-> "many-to-one"] >>
                  ELSE <<>>
    IN  rel(1) \o rel(2) \o rel(3)

RECURSIVE detectRelationships(_)
detectRelationships(columns) ==
    IF columns = <<>> THEN <<>>
    ELSE columnRelationships(Head(columns)) \o detectRelationships(Tail(columns))

\* columns.find(col => name includes 'id' && col.unique && col.type === 'id')?.name
findPrimaryKey(columns) ==
    LET hits == { i \in 1..Len(columns) :
                    /\ includes(toLowerCase(columns[i].name), <<"i","d">>)
                    /\ columns[i].unique
                    /\ columns[i].type = "id" }
    IN  IF hits = {} THEN <<>> ELSE columns[Min(hits)].name

\* boolMap[stringValue.toLowerCase()] ?? false
boolMap(t) == t \in { <<"t","r","u","e">>, <<"1">>, <<"y","e","s">>, <<"y">> }

\* cleanValue that leaves every text that parses as JSON as it is in an array column
cleanValueAsIs(value, column) ==
    IF value = Null \/ value = Undefined \/ value = EmptyStr THEN EmptyStr
    ELSE LET stringValue == trim(String(value))
         IN  CASE column.type = "number" ->
                    LET numValue == parseFloat(stringValue)
                    IN  IF isNaN(numValue)
                        THEN (IF column.required THEN Num(0) ELSE EmptyStr)
                        ELSE numValue
               [] column.type = "boolean" ->
                    Bool(boolMap(toLowerCase(stringValue)))
               [] column.type = "json" ->
                    IF jsonParses(stringValue) THEN Str(stringValue) ELSE Str(<<"{", "}">>)
               [] column.type = "array" ->
                    LET quoted == replaceAll(stringValue, "'", "\"")
                        tokens == split(stringValue, ",")
                    IN  IF jsonParses(quoted)
                        THEN Str(stringValue)
                        ELSE IF includes(stringValue, <<",">>)
                        THEN Str(<<"[">>
                                 \o join([i \in 1..Len(tokens) |->
                                            <<"\"">> \o trim(tokens[i]) \o <<"\"">>], <<",">>)
                                 \o <<"]">>)
                        ELSE Str(stringValue)
               [] OTHER -> Str(stringValue)

\* cleanValue of the upload pipeline
cleanValue(value, column) ==
    IF value = Null \/ value = Undefined \/ value = EmptyStr THEN EmptyStr
    ELSE LET stringValue == trim(String(value))
         IN  CASE column.type = "number" ->
                    LET numValue == parseFloat(stringValue)
                    IN  IF isNaN(numValue)
                        THEN (IF column.required THEN Num(0) ELSE EmptyStr)
                        ELSE numValue
               [] column.type = "boolean" ->
                    Bool(boolMap(toLowerCase(stringValue)))
               [] column.type = "json" ->
                    IF jsonParses(stringValue) THEN Str(stringValue) ELSE Str(<<"{", "}">>)
               [] column.type = "array" ->
                    LET quoted == replaceAll(stringValue, "'", "\"")
                        tokens == split(stringValue, ",")
                    IN  IF jsonParses(quoted)
                        THEN (IF IsJSONArray(quoted) THEN Str(stringValue)
                              ELSE Str(<<"[">> \o stringValue \o <<"]">>))
                        ELSE IF includes(stringValue, <<",">>)
                        THEN Str(<<"[">>
                                 \o join([i \in 1..Len(tokens) |->
                                            <<"\"">> \o trim(tokens[i]) \o <<"\"">>], <<",">>)
                                 \o <<"]">>)
                        ELSE Str(stringValue)
               [] OTHER -> Str(stringValue)

\* Array.from(allColumns): the keys of the rows in header order
allColumnsOf(header, rows) ==
    SelectSeq(header, LAMBDA c : \E i \in 1..Len(rows) : c \in DOMAIN rows[i])

\* performAISchemaDetection past its empty-data check
performAISchemaDetection(rows, header, tableName, fileName) ==
    LET names == allColumnsOf(header, rows)
        columns == [i \in 1..Len(names) |-> detectColumnSchema(names[i], rows)]
        cleanedData ==
            [r \in 1..Len(rows) |->
                [c \in Range(names) |->
                    cleanValue(Get(rows[r], c),
                               columns[CHOOSE i \in 1..Len(names) : names[i] = c])]]
    IN  [cleanedData |-> cleanedData,
         detectedSchema |->
            [name             |-> tableName,
             columns          |-> columns,
             primaryKey       |-> findPrimaryKey(columns),
             relationships    |-> detectRelationships(columns),
             aiClassification |-> classifyEntityType(tableName, columns, fileName)]]

----------------------------------------------------------------------------
(* The validation passes of the Home page *)

Dash == <<"-">>

\* One ValidationError; detail keeps the part of the message that varies
Finding(id, row, column, severity, type, autoFixable, detail) ==
    [id |-> id, row |-> row, column |-> column, severity |-> severity,
     type |-> type, autoFixable |-> autoFixable, detail |-> detail]

\* Concatenation of a sequence of sequences
RECURSIVE Flatten(_)
Flatten(ss) == IF ss = <<>> THEN <<>> ELSE Head(ss) \o Flatten(Tail(ss))

\* validateColumnType with a case for boolean columns added
validateColumnTypeMore(value, column, index, tableName) ==
    LET errorId == tableName \o Dash \o NumToText(index) \o Dash \o column.name
    IN  CASE column.type = "number" /\ isNaN(parseFloat(String(value))) ->
                << Finding(errorId \o <<"-","t","y","p","e">>, index, column.name,
                           "error", "type_mismatch", TRUE, <<typeof(value)>>) >>
          [] column.type = "email" /\ ~emailRegex(String(value)) ->
                << Finding(errorId \o <<"-","t","y","p","e">>, index, column.name,
                           "error", "type_mismatch", FALSE, <<>>) >>
          [] column.type = "boolean" /\ toLowerCase(String(value)) \notin boolValues ->
                << Finding(errorId \o <<"-","t","y","p","e">>, index, column.name,
                           "error", "type_mismatch", TRUE, <<>>) >>
          [] OTHER -> <<>>

\* Zero or one finding: the return value, null being the empty sequence
validateColumnType(value, column, index, tableName) ==
    LET errorId == tableName \o Dash \o NumToText(index) \o Dash \o column.name
    IN  CASE column.type = "number" /\ isNaN(parseFloat(String(value))) ->
                << Finding(errorId \o <<"-","t","y","p","e">>, index, column.name,
                           "error", "type_mismatch", TRUE, <<typeof(value)>>) >>
          [] column.type = "email" /\ ~emailRegex(String(value)) ->
                << Finding(errorId \o <<"-","t","y","p","e">>, index, column.name,
                           "error", "type_mismatch", FALSE, <<>>) >>
          [] OTHER -> <<>>

\* The findings one column of one row pushes
columnFindings(row, index, tableName, column) ==
    LET value == Get(row, column.name)
        errorId == tableName \o Dash \o NumToText(index)
    IN  (IF column.required /\ (~Truthy(value) \/ value = EmptyStr)
         THEN << Finding(errorId \o Dash \o column.name
                             \o <<"-","r","e","q","u","i","r","e","d">>,
                         index, column.name, "error", "missing_required",
                         column.type = "number" \/ column.type = "boolean", <<>>) >>
         ELSE <<>>)
        \o
        (IF Truthy(value) /\ value # EmptyStr
         THEN validateColumnType(value, column, index, tableName)
         ELSE <<>>)

validateRowAgainstSchema(row, index, tableName, schema) ==
    Flatten([c \in 1..Len(schema.columns) |->
                columnFindings(row, index, tableName, schema.columns[c])])

\* data[tableName] || []
RowsOf(d, tableName) == IF tableName \in DOMAIN d THEN d[tableName] ELSE <<>>

\* The findings of one relationship of one table
relationshipFindings(d, tableName, relationship) ==
    LET sourceData == RowsOf(d, tableName)
        targetData == RowsOf(d, relationship.table)
        targetIds == { Get(targetData[i], relationship.column) : i \in 1..Len(targetData) }
        rowFinding(i) ==
            LET value == Get(sourceData[i], relationship.column)
            IN  IF Truthy(value) /\ value \notin targetIds
                THEN << Finding(tableName \o Dash \o NumToText(i - 1) \o Dash
                                    \o relationship.column \o <<"-","r","e","f">>,
                                i - 1, relationship.column, "error", "unknown_reference",
                                FALSE, String(value)) >>
                ELSE <<>>
    IN  Flatten([i \in 1..Len(sourceData) |-> rowFinding(i)])

\* validateCrossReferences over the schemas and data the handler closed over
validateCrossReferences(ord, d, sch) ==
    Flatten([t \in 1..Len(ord) |->
        Flatten([r \in 1..Len(sch[ord[t]].relationships) |->
            relationshipFindings(d, ord[t], sch[ord[t]].relationships[r])])])

BurnoutThreshold == 8

\* schema.columns.find(col => name includes 'load' or 'capacity'): its index, 0 if none
loadColumnOf(schema) ==
    LET hits == { i \in 1..Len(schema.columns) :
                    \/ includes(toLowerCase(schema.columns[i].name), <<"l","o","a","d">>)
                    \/ includes(toLowerCase(schema.columns[i].name),
                                <<"c","a","p","a","c","i","t","y">>) }
    IN  IF hits = {} THEN 0 ELSE Min(hits)

\* The burnout findings of one table
burnoutFindings(d, tableName, schema) ==
    LET tableData == RowsOf(d, tableName)
        lc == loadColumnOf(schema)
        rowFinding(i) ==
            LET cell == Get(tableData[i], schema.columns[lc].name)
                load == parseInt(String(cell))
            IN  IF Truthy(cell) /\ ~isNaN(load) /\ load.n > BurnoutThreshold
                THEN << Finding(tableName \o Dash \o NumToText(i - 1)
                                    \o <<"-","b","u","r","n","o","u","t","-","r","i","s","k">>,
                                i - 1, schema.columns[lc].name, "warning", "burnout_risk",
                                FALSE, NumToText(load.n)) >>
                ELSE <<>>
    IN  IF schema.aiClassification.entityType = "workers" /\ lc # 0
        THEN Flatten([i \in 1..Len(tableData) |-> rowFinding(i)])
        ELSE <<>>

\* validateAdvancedConstraints over the schemas and data the handler closed over
validateAdvancedConstraints(ord, d, sch) ==
    Flatten([t \in 1..Len(ord) |-> burnoutFindings(d, ord[t], sch[ord[t]])])

validateBusinessLogic == <<>>

\* prev.filter(error => !error.id.startsWith(tableName))
keepOthers(prev, tableName) ==
    SelectSeq(prev, LAMBDA error : ~startsWith(error.id, tableName))

\* runValidation: the new validationErrors.  ord, d, sch are the order, data and
\* schemas of the render whose handler is running; prev is the state the updater gets.
runValidation(prev, tableName, dataToValidate, schema, ord, d, sch) ==
    LET errors ==
            Flatten([i \in 1..Len(dataToValidate) |->
                        validateRowAgainstSchema(dataToValidate[i], i - 1, tableName, schema)])
            \o validateCrossReferences(ord, d, sch)
            \o validateAdvancedConstraints(ord, d, sch)
            \o validateBusinessLogic
    IN  keepOthers(prev, tableName) \o errors

----------------------------------------------------------------------------
(* The handlers of the Home page *)

\* { ...obj, [key]: value }
SetKey(obj, key, value) ==
    [x \in (DOMAIN obj) \cup {key} |-> IF x = key THEN value ELSE obj[x]]

NoCall == [op |-> "none", table |-> <<>>, row |-> 0, column |-> <<>>,
           value |-> Undefined, id |-> <<>>]

Call(op, table, row, column, value, id) ==
    [op |-> op, table |-> table, row |-> row, column |-> column,
     value |-> value, id |-> id]

\* A handleDataUpload that adds the new rows to the rows the table already has
handleDataUploadMerge(tableName, newData, detectedSchema) ==
    /\ data' = SetKey(data, tableName, RowsOf(data, tableName) \o newData)
    /\ schemas' = SetKey(schemas, tableName, detectedSchema)
    /\ order' = IF tableName \in Range(order) THEN order ELSE Append(order, tableName)
    /\ validationErrors' =
           runValidation(validationErrors, tableName, newData, detectedSchema,
                         order, data, schemas)

\* handleDataUpload: what it does to data, schemas and validationErrors
handleDataUpload(tableName, newData, detectedSchema) ==
    /\ data' = SetKey(data, tableName, newData)
    /\ schemas' = SetKey(schemas, tableName, detectedSchema)
    /\ order' = IF tableName \in Range(order) THEN order ELSE Append(order, tableName)
    /\ validationErrors' =
           runValidation(validationErrors, tableName, newData, detectedSchema,
                         order, data, schemas)

\* data[tableName][rowIndex]: undefined (no keys) when there is no such row
RowAt(tableName, rowIndex) ==
    IF rowIndex + 1 \in 1..Len(data[tableName])
    THEN data[tableName][rowIndex + 1]
    ELSE <<>>

\* updateData: what it does to data and validationErrors
updateData(tableName, rowIndex, field, value) ==
    /\ data' = [data EXCEPT ![tableName] =
                   [i \in 1..Len(data[tableName]) |->
                       IF i - 1 = rowIndex
                       THEN SetKey(data[tableName][i], field, value)
                       ELSE data[tableName][i]]]
    /\ validationErrors' =
           IF tableName \in DOMAIN schemas
           THEN runValidation(validationErrors, tableName,
                              << SetKey(RowAt(tableName, rowIndex), field, value) >>,
                              schemas[tableName], order, data, schemas)
           ELSE validationErrors
    /\ UNCHANGED <<order, schemas>>

\* schemas[tableName]?.columns.find(col => col.name === column): its index, 0 if none
columnIndex(tableName, column) ==
    IF tableName \notin DOMAIN schemas THEN 0
    ELSE LET hits == { i \in 1..Len(schemas[tableName].columns) :
                         schemas[tableName].columns[i].name = column }
         IN  IF hits = {} THEN 0 ELSE Min(hits)

\* The fixedValue of applyAutoFix; Undefined when the switch leaves it unset
fixedValueOf(error, tableName) ==
    LET ci == columnIndex(tableName, error.column)
        col == schemas[tableName].columns[ci]
    IN  CASE error.type = "out_of_range" ->
                IF ci # 0 /\ col.validation.defined /\ col.validation.hasMin
                THEN Num(col.validation.min)
                ELSE IF ci # 0 /\ col.validation.defined /\ col.validation.hasMax
                THEN Num(col.validation.max)
                ELSE Undefined
          [] error.type = "type_mismatch" ->
                IF ci # 0 /\ col.type = "number" THEN Num(0)
                ELSE IF ci # 0 /\ col.type = "boolean" THEN Str(<<"f","a","l","s","e">>)
                ELSE Undefined
          [] error.type = "malformed_json" -> Str(<<"{", "}">>)
          [] error.type = "missing_required" ->
                IF ci # 0 /\ col.type = "number" THEN Num(1)
                ELSE IF ci # 0 /\ col.type = "boolean" THEN Str(<<"f","a","l","s","e">>)
                ELSE IF ci # 0 /\ col.type = "string" THEN Str(<<"d","e","f","a","u","l","t">>)
                ELSE Undefined
          [] OTHER -> Undefined

\* error.id.split('-')[0]
tableNameOf(error) == split(error.id, "-")[1]

\* applyAutoFix: what it does to data and validationErrors
applyAutoFix(error) ==
    LET tableName == tableNameOf(error)
        fixedValue == fixedValueOf(error, tableName)
    IN  IF fixedValue # Undefined /\ tableName \in DOMAIN data
        THEN updateData(tableName, error.row, error.column, fixedValue)
        ELSE UNCHANGED <<order, data, schemas, validationErrors>>

----------------------------------------------------------------------------
(* Inputs *)

MaxRows == 2

MaxOps == 3

MaxLen == 3

MaxCols == 2


\* The files a user can drop: per table name the header and the texts of each column
Shapes ==
    { [name |-> Txt.tasks, header |-> <<Txt.TaskID>>,
       cells |-> [c \in {Txt.TaskID} |-> {Str(Txt.TA), Str(Txt.TB)}]],
      [name |-> Txt.workers, header |-> <<Txt.TaskID, Txt.Load>>,
       cells |-> [c \in {Txt.TaskID, Txt.Load} |->
                    IF c = Txt.TaskID THEN {Str(Txt.TA)}
                    ELSE {Str(Txt.period), Str(Txt.abc)}]],
      [name |-> Txt.work, header |-> <<Txt.Done>>,
       cells |-> [c \in {Txt.Done} |-> {Str(Txt.yes), Str(Txt.no)}]] }

RawRows(shape) ==
    { r \in [Range(shape.header) -> UNION Range(shape.cells)] :
        \A c \in Range(shape.header) : r[c] \in shape.cells[c] }

Files ==
    UNION { { [fileName |-> shape.name \o Txt.csv, header |-> shape.header, rows |-> rows] :
                rows \in UNION { [1..n -> RawRows(shape)] : n \in 1..MaxRows } } :
            shape \in Shapes }

\* What the user can type into a cell of the grid
EditTexts == { <<>>, Txt.abc }

\* file.name.replace(/\.[^/.]+$/, "")
stripExtension(fileName) ==
    LET dots == { i \in 1..Len(fileName) :
                    /\ fileName[i] = "."
                    /\ i < Len(fileName)
                    /\ \A j \in (i + 1)..Len(fileName) : fileName[j] \notin {"/", "."} }
    IN  IF dots = {} THEN fileName ELSE SubSeq(fileName, 1, Min(dots) - 1)

\* The column names and the cell values detectColumnSchema is tried on: a missing cell,
\* an empty cell, a boolean of a spreadsheet, and texts
DetectNames == { Txt.TaskID, Txt.Load }

DetectRows(name) ==
    LET DetectValues ==
            { Undefined, EmptyStr, Bool(FALSE), Str(Txt.true), Str(Txt.abc),
              Str(Txt.longid), Str(Txt.year), Str(Txt.period), Str(Txt.email),
              Str(Txt.url), Str(Txt.list) }
    IN  UNION { [1..n -> { [c \in {name} |-> v] : v \in DetectValues }] : n \in 1..MaxLen }

\* What performAISchemaDetection returns for each file
Detected ==
    [file \in Files |->
        performAISchemaDetection(file.rows, file.header, stripExtension(file.fileName),
                                 file.fileName)]

\* No function has been called on its own, and none has returned
NoArgs == [fn |-> "none"]

NoRet == [done |-> FALSE]

NoColumn ==
    [name |-> <<>>, type |-> "none", required |-> FALSE, unique |-> FALSE,
     validation |-> [defined |-> FALSE, hasMin |-> FALSE, min |-> 0, hasMax |-> FALSE,
                     max |-> 0, hasEnum |-> FALSE, enum |-> <<>>],
     confidence |-> Score(0, 1)]

\* The panels as constructed
PanelsInit ==
    /\ isProcessing = <<>>
    /\ toasts = <<>>
    /\ businessRules = <<>>
    /\ nlJob = <<>>
    /\ now = 0
    /\ exportJob = <<>>
    /\ downloads = <<>>
    /\ fileJob = <<>>
    /\ editingCell = <<>>
    /\ searchTerm = <<>>
    /\ searchResults = [table |-> <<>>, indices |-> <<>>]  \* table: null, no table

----------------------------------------------------------------------------
(* The dashboard: uploads, cell edits and auto-fixes *)

Init ==
    /\ order = <<>>
    /\ data = <<>>
    /\ schemas = <<>>
    /\ validationErrors = <<>>
    /\ nOps = 0
    /\ last = NoCall
    /\ dcName = <<>>
    /\ dcRows = <<>>
    /\ dcOut = NoColumn
    /\ fnArgs = NoArgs
    /\ fnRet = NoRet
    /\ PanelsInit

\* processFile on a file that parses: schema detection, then onDataUpload
Upload ==
    \E file \in Files :
        LET tableName == stripExtension(file.fileName)
            detected == Detected[file]
        IN  /\ nOps < MaxOps
            /\ handleDataUpload(tableName, detected.cleanedData, detected.detectedSchema)
            /\ nOps' = nOps + 1
            /\ last' = Call("handleDataUpload", tableName, 0, <<>>, Undefined, <<>>)
            /\ isProcessing' = SetKey(isProcessing, tableName, FALSE)
            /\ toasts' = Append(toasts, "success")
            /\ UNCHANGED <<gridVars, dcName, dcRows, dcOut, fnArgs, fnRet, ruleVars, exportVars>>

\* saveEdit of the data grid: onUpdate(tableName, row, column, editValue)
EditCell ==
    \E tableName \in DOMAIN data :
        \E rowIndex \in 0..(Len(data[tableName]) - 1) :
            \E c \in 1..Len(schemas[tableName].columns) :
                \E text \in EditTexts :
                    /\ nOps < MaxOps
                    /\ updateData(tableName, rowIndex,
                                  schemas[tableName].columns[c].name, Str(text))
                    /\ nOps' = nOps + 1
                    /\ last' = Call("updateData", tableName, rowIndex,
                                    schemas[tableName].columns[c].name, Str(text), <<>>)
                    /\ UNCHANGED <<gridVars, dcName, dcRows, dcOut, fnArgs, fnRet, fileVars, ruleVars, exportVars>>

\* The fix button of a finding that is autoFixable: onApplyFix(error)
ApplyFix ==
    \E i \in 1..Len(validationErrors) :
        LET error == validationErrors[i]
        IN  /\ nOps < MaxOps
            /\ error.autoFixable
            /\ applyAutoFix(error)
            /\ nOps' = nOps + 1
            /\ last' = Call("applyAutoFix", tableNameOf(error), error.row, error.column,
                            fixedValueOf(error, tableNameOf(error)), error.id)
            /\ UNCHANGED <<gridVars, dcName, dcRows, dcOut, fnArgs, fnRet, fileVars, ruleVars, exportVars>>

Next == Upload \/ EditCell \/ ApplyFix

Spec == Init /\ [][Next]_vars

----------------------------------------------------------------------------
(* detectColumnSchema on its own: one column of a parsed file *)

InitDetect ==
    /\ order = <<>>
    /\ data = <<>>
    /\ schemas = <<>>
    /\ validationErrors = <<>>
    /\ nOps = 0
    /\ last = NoCall
    /\ dcName \in DetectNames
    /\ dcRows \in DetectRows(dcName)
    /\ dcOut = NoColumn
    /\ fnArgs = NoArgs
    /\ fnRet = NoRet
    /\ PanelsInit

DetectColumn ==
    /\ dcOut = NoColumn
    /\ dcOut' = detectColumnSchema(dcName, dcRows)
    /\ UNCHANGED <<gridVars, order, data, schemas, validationErrors, nOps, last, dcName, dcRows,
                   fnArgs, fnRet, fileVars, ruleVars, exportVars>>

NextDetect == DetectColumn

SpecDetect == InitDetect /\ [][NextDetect]_vars

----------------------------------------------------------------------------
(* The CSV text of the export controls *)

\* downloadCSV(data, filename): no file for an empty table, else the text of the Blob;
\* headers is Object.keys(data[0])
downloadCSV(headers, tableData) ==
    LET field(row, header) ==
            LET value == IF Truthy(Get(row, header)) THEN Get(row, header) ELSE EmptyStr
                text == String(value)
            IN  IF includes(text, <<",">>)
                THEN <<"\"">>
                         \o Flatten([i \in 1..Len(text) |->
                                        IF text[i] = "\"" THEN <<"\"", "\"">>
                                        ELSE <<text[i]>>])
                         \o <<"\"">>
                ELSE text
        line(row) == join([j \in 1..Len(headers) |-> field(row, headers[j])], <<",">>)
    IN  IF Len(tableData) = 0 THEN [download |-> FALSE, csvContent |-> <<>>]
        ELSE [download |-> TRUE,
              csvContent |-> join(<<join(headers, <<",">>)>>
                                      \o [i \in 1..Len(tableData) |-> line(tableData[i])],
                                  <<"\n">>)]

----------------------------------------------------------------------------
(* One function of the program called on its own *)

\* The page as constructed, before any function is called
Fresh ==
    /\ order = <<>>
    /\ data = <<>>
    /\ schemas = <<>>
    /\ validationErrors = <<>>
    /\ nOps = 0
    /\ last = NoCall
    /\ dcName = <<>>
    /\ dcRows = <<>>
    /\ dcOut = NoColumn
    /\ PanelsInit

\* The called function returns value
Return(value) ==
    /\ ~fnRet.done
    /\ fnRet' = [done |-> TRUE, value |-> value]
    /\ UNCHANGED <<gridVars, homeVars, detectVars, fnArgs, fileVars, ruleVars, exportVars>>

\* order, data and schemas of the page once a file has been uploaded into it
Uploaded(file) ==
    LET tableName == stripExtension(file.fileName)
        detected == performAISchemaDetection(file.rows, file.header, tableName,
                                             file.fileName)
    IN  [order   |-> <<tableName>>,
         data    |-> SetKey(<<>>, tableName, detected.cleanedData),
         schemas |-> SetKey(<<>>, tableName, detected.detectedSchema)]

\* The column lists of a file whose header holds some of the given names
ColumnsNamed(names) ==
    { [i \in 1..Len(header) |-> [NoColumn EXCEPT !.name = header[i], !.type = "string"]] :
        header \in { h \in UNION { [1..n -> names] : n \in 1..MaxCols } :
                       \A i, j \in 1..Len(h) : h[i] = h[j] => i = j } }

\* The arguments the functions are called with, each record naming its function
Args ==
    UNION {
    \* validateAdvancedConstraints in a render that holds an uploaded workers table
    \* with a load and a capacity column
        LET shape == [header |-> <<Txt.Load, Txt.Capacity>>,
                      cells  |-> [c \in {Txt.Load, Txt.Capacity} |->
                                    {Str(Txt.eight), Str(Txt.nine), Str(Txt.abc)}]]
            files == { [fileName |-> Txt.workers \o Txt.csv, header |-> shape.header,
                        rows |-> rows] :
                         rows \in UNION { [1..n -> RawRows(shape)] : n \in 1..MaxRows } }
        IN  { [fn |-> "validateAdvancedConstraints", page |-> Uploaded(file)] : file \in files }
    \* validateColumnType on the non-empty values validateRowAgainstSchema passes on
        ,
        LET values == { Str(Txt.abc), Str(Txt.year), Str(Txt.period), Str(Txt.email),
                        Str(Txt.nodot), Str(Txt.spaced), Num(5), Bool(TRUE) }
            columns == { [NoColumn EXCEPT !.name = Txt.Load, !.type = t] :
                           t \in Range(TypeOrder) }
        IN  { [fn |-> "validateColumnType", value |-> v, column |-> c,
               index |-> i, tableName |-> Txt.workers] :
                v \in values, c \in columns, i \in 0..(MaxRows - 1) }
    \* cleanValue on the cells of a parsed file, for a column of every type
        ,
        LET values == { Undefined, Null, EmptyStr, Num(5), Bool(FALSE), Str(Txt.abc),
                        Str(Txt.true), Str(Txt.five), Str(Txt.list), Str(Txt.padded),
                        Str(Txt.apostrophe), Str(Txt.jsonArray), Str(Txt.quotedArray) }
            columns == { [NoColumn EXCEPT !.name = Txt.Load, !.type = t, !.required = r] :
                           t \in Range(TypeOrder), r \in BOOLEAN }
        IN  { [fn |-> "cleanValue", value |-> v, column |-> c] :
                v \in values, c \in columns }
    \* classifyEntityType for a table named after its file or by the user
        ,
        { [fn |-> "classifyEntityType", tableName |-> t, columns |-> c,
           fileName |-> f \o Txt.csv] :
            t \in {Txt.work, Txt.workers, Txt.tasks}, f \in {Txt.work, Txt.workers, Txt.tasks},
            c \in ColumnsNamed({Txt.Load, Txt.Capacity, Txt.Priority, Txt.Phase}) }
    \* detectRelationships on the columns of a file
        ,
        { [fn |-> "detectRelationships", columns |-> c] :
            c \in ColumnsNamed({Txt.TaskID, Txt.dashId, Txt.spaceId, Txt.underId, Txt.Load}) }
    \* downloadCSV on the cleaned rows of a table: one column and one row (w is
    \* undefined) or two rows, then two columns and one row
        ,
        { [fn |-> "downloadCSV", headers |-> <<Txt.Load>>,
           data |-> IF w = Undefined THEN << [c \in {Txt.Load} |-> v] >>
                    ELSE << [c \in {Txt.Load} |-> v], [c \in {Txt.Load} |-> w] >>] :
            v \in { Null, EmptyStr, Num(0), Num(5), Bool(FALSE), Bool(TRUE), Str(Txt.abc),
                    Str(Txt.list), Str(Txt.quoteComma), Str(Txt.quote) },
            w \in { Undefined, Null, EmptyStr, Num(0), Num(5), Bool(FALSE), Bool(TRUE),
                    Str(Txt.abc), Str(Txt.list), Str(Txt.quoteComma), Str(Txt.quote) } }
        ,
        { [fn |-> "downloadCSV", headers |-> <<Txt.Load, Txt.Done>>,
           data |-> << [c \in {Txt.Load, Txt.Done} |-> IF c = Txt.Load THEN v ELSE w] >>] :
            v \in { Str(Txt.abc), Str(Txt.list), Num(5) },
            w \in { Str(Txt.abc), Str(Txt.list), Num(5) } } }

CallBurnout ==
    /\ fnArgs.fn = "validateAdvancedConstraints"
    /\ Return(validateAdvancedConstraints(fnArgs.page.order, fnArgs.page.data,
                                          fnArgs.page.schemas))

CallTypeCheck ==
    /\ fnArgs.fn = "validateColumnType"
    /\ Return(validateColumnType(fnArgs.value, fnArgs.column, fnArgs.index,
                                 fnArgs.tableName))

CallClean ==
    /\ fnArgs.fn = "cleanValue"
    /\ Return(cleanValue(fnArgs.value, fnArgs.column))

CallClassify ==
    /\ fnArgs.fn = "classifyEntityType"
    /\ Return(classifyEntityType(fnArgs.tableName, fnArgs.columns, fnArgs.fileName))

CallRelations ==
    /\ fnArgs.fn = "detectRelationships"
    /\ Return(detectRelationships(fnArgs.columns))

CallDownloadCSV ==
    /\ fnArgs.fn = "downloadCSV"
    /\ Return(downloadCSV(fnArgs.headers, fnArgs.data))

InitCall ==
    /\ Fresh
    /\ fnArgs \in Args
    /\ fnRet = NoRet

NextCall ==
    \/ CallBurnout
    \/ CallTypeCheck
    \/ CallClean
    \/ CallClassify
    \/ CallRelations
    \/ CallDownloadCSV

SpecCall == InitCall /\ [][NextCall]_vars

----------------------------------------------------------------------------
(* processFile on files that hold a header line and no data row *)

\* The CSV path: Papa.parse completes without errors and with no row, then
\* performAISchemaDetection throws inside the async complete callback, which has no
\* catch of its own and runs after the try of processFile has returned
UploadEmptyCsv ==
    \E shape \in Shapes :
        LET file == [fileName |-> shape.name \o Txt.csv, header |-> shape.header,
                     rows |-> <<>>]
            finalTableName == stripExtension(file.fileName)
        IN  /\ nOps < MaxOps
            /\ Len(file.rows) = 0
            /\ isProcessing' = SetKey(isProcessing, finalTableName, TRUE)
            /\ nOps' = nOps + 1
            /\ last' = Call("processFile", finalTableName, 0, <<>>, Undefined,
                            file.fileName)
            /\ UNCHANGED <<gridVars, order, data, schemas, validationErrors, detectVars,
                           fnArgs, fnRet, toasts, ruleVars, exportVars>>

\* The Excel path: performAISchemaDetection throws inside the try of reader.onload
UploadEmptySheet ==
    \E shape \in Shapes :
        LET file == [fileName |-> shape.name \o Txt.xlsx, header |-> shape.header,
                     rows |-> <<>>]
            finalTableName == stripExtension(file.fileName)
        IN  /\ nOps < MaxOps
            /\ Len(file.rows) = 0
            /\ isProcessing' = SetKey(isProcessing, finalTableName, FALSE)
            /\ toasts' = Append(toasts, "error")
            /\ nOps' = nOps + 1
            /\ last' = Call("processFile", finalTableName, 0, <<>>, Undefined,
                            file.fileName)
            /\ UNCHANGED <<gridVars, order, data, schemas, validationErrors, detectVars,
                           fnArgs, fnRet, ruleVars, exportVars>>

NextFiles == Upload \/ UploadEmptyCsv \/ UploadEmptySheet

SpecFiles == Init /\ [][NextFiles]_vars

----------------------------------------------------------------------------
(* processFile in its two halves: the call, and the callback of the parser *)

\* The files dropped here: the one-row files of tasks, a file with a header line
\* and no data row as .csv, as .xlsx and as .txt; detected is what
\* performAISchemaDetection returns for the rows of the file, when it has rows
ProcessFiles ==
    { [fileName |-> file.fileName, rows |-> file.rows, detected |-> Detected[file]] :
        file \in { f \in Files : Len(f.rows) = 1 /\ f.header = <<Txt.TaskID>> } }
      \cup { [fileName |-> Txt.tasks \o ext, rows |-> <<>>, detected |-> <<>>] :
               ext \in { Txt.csv, Txt.xlsx, <<".", "t", "x", "t">> } }

\* processFile up to the return of its try: the flag is set, then the parse is started
\* with the handlers of this render in its callbacks, or the type is refused at once.
\* parseFails says whether the parser will report errors, or XLSX.read will throw;
\* findings is what runValidation will find in the rows of the file next to the data
\* and schemas that the handleDataUpload of this render holds
BeginFile ==
    \E file \in ProcessFiles, parseFails \in BOOLEAN :
        LET finalTableName == stripExtension(file.fileName)
            \* file.name.split('.').pop()?.toLowerCase()
            parts == split(file.fileName, ".")
            fileExtension == toLowerCase(parts[Len(parts)])
            known == fileExtension \in { <<"c","s","v">>, <<"x","l","s","x">>,
                                         <<"x","l","s">> }
        IN  /\ nOps < MaxOps
            /\ known \/ ~parseFails
            /\ IF known
               THEN /\ isProcessing' = SetKey(isProcessing, finalTableName, TRUE)
                    /\ fileJob' = Append(fileJob,
                                         [file |-> file, tableName |-> finalTableName,
                                          fileExtension |-> fileExtension,
                                          parseFails |-> parseFails,
                                          findings |->
                                              IF Len(file.rows) = 0 THEN <<>>
                                              ELSE runValidation(<<>>, finalTableName,
                                                       file.detected.cleanedData,
                                                       file.detected.detectedSchema,
                                                       order, data, schemas)])
                    /\ UNCHANGED toasts
               ELSE /\ isProcessing' = SetKey(isProcessing, finalTableName, FALSE)
                    /\ toasts' = Append(toasts, "error")
                    /\ UNCHANGED fileJob
            /\ nOps' = nOps + 1
            /\ last' = Call("processFile", finalTableName, 0, <<>>, Undefined, file.fileName)
            /\ UNCHANGED <<order, data, schemas, validationErrors, detectVars, fnArgs, fnRet,
                           ruleVars, exportVars, editingCell, searchTerm, searchResults>>

\* The callback of a parse that was started: complete or error of Papa.parse,
\* reader.onload of the Excel path. The callbacks of two files come in either order
EndFile ==
    \E i \in 1..Len(fileJob) :
        LET job == fileJob[i]
            file == job.file
            finalTableName == job.tableName
            csv == job.fileExtension = <<"c","s","v">>
            rest == [j \in 1..(Len(fileJob) - 1) |->
                        IF j < i THEN fileJob[j] ELSE fileJob[j + 1]]
        IN  /\ fileJob' = rest
            /\ IF job.parseFails \/ (Len(file.rows) = 0 /\ ~csv)
               THEN \* toast.error and the flag is cleared
                    /\ isProcessing' = SetKey(isProcessing, finalTableName, FALSE)
                    /\ toasts' = Append(toasts, "error")
                    /\ UNCHANGED <<order, data, schemas, validationErrors>>
               ELSE IF Len(file.rows) = 0
               THEN \* performAISchemaDetection rejects in the complete callback of
                    \* Papa.parse, which has no catch: nothing after it runs
                    UNCHANGED <<order, data, schemas, validationErrors, isProcessing, toasts>>
               ELSE \* onDataUpload is the handleDataUpload of the render that called
                    \* processFile: setData, setSchemas and setValidationErrors see
                    \* the latest state, runValidation read the data of that render
                    /\ data' = SetKey(data, finalTableName, file.detected.cleanedData)
                    /\ schemas' = SetKey(schemas, finalTableName,
                                         file.detected.detectedSchema)
                    /\ order' = IF finalTableName \in Range(order) THEN order
                                ELSE Append(order, finalTableName)
                    /\ validationErrors' =
                           keepOthers(validationErrors, finalTableName) \o job.findings
                    /\ isProcessing' = SetKey(isProcessing, finalTableName, FALSE)
                    /\ toasts' = Append(toasts, "success")
            /\ UNCHANGED <<nOps, last, detectVars, fnArgs, fnRet, ruleVars, exportVars,
                           editingCell, searchTerm, searchResults>>

NextProcess == BeginFile \/ EndFile

\* Every parse that was started calls back: the file is read and the timer of
\* performAISchemaDetection runs out
SpecProcess == Init /\ [][NextProcess]_vars /\ WF_vars(EndFile)

----------------------------------------------------------------------------
(* The data grids, the natural language search and the fix-all button *)

\* The files dropped here, each with what performAISchemaDetection returns for it:
\* work.csv with two rows and with one, and my-data.csv
GridFiles ==
    { [fileName |-> f.fileName,
       detected |-> performAISchemaDetection(f.rows, f.header, stripExtension(f.fileName),
                                             f.fileName)] :
        f \in { [fileName |-> Txt.work \o Txt.csv, header |-> <<Txt.Done>>,
                 rows |-> << [c \in {Txt.Done} |-> Str(Txt.yes)],
                             [c \in {Txt.Done} |-> Str(Txt.no)] >>],
                [fileName |-> Txt.work \o Txt.csv, header |-> <<Txt.Done>>,
                 rows |-> << [c \in {Txt.Done} |-> Str(Txt.no)],
                             [c \in {Txt.Done} |-> Str(Txt.no)] >>],
                [fileName |-> Txt.work \o Txt.csv, header |-> <<Txt.Done>>,
                 rows |-> << [c \in {Txt.Done} |-> Str(Txt.yes)] >>],
                [fileName |-> <<"m","y","-","d","a","t","a">> \o Txt.csv,
                 header |-> <<Txt.Done>>,
                 rows |-> << [c \in {Txt.Done} |-> Str(Txt.no)] >>] } }

\* processFile on one of these files
UploadGrid ==
    \E file \in GridFiles :
        LET tableName == stripExtension(file.fileName)
        IN  /\ nOps < MaxOps
            /\ handleDataUpload(tableName, file.detected.cleanedData,
                                file.detected.detectedSchema)
            /\ nOps' = nOps + 1
            /\ last' = Call("handleDataUpload", tableName, 0, <<>>, Undefined, <<>>)
            /\ isProcessing' = SetKey(isProcessing, tableName, FALSE)
            /\ toasts' = Append(toasts, "success")
            /\ UNCHANGED <<gridVars, detectVars, fnArgs, fnRet, ruleVars, exportVars>>

\* parseAndExecuteQuery and searchInTable, for a query that names a loaded table: the
\* last table of Object.keys(data) whose name the query holds is searched.
\* matchesQuery is taken for a query that holds none of the words of its branches
\* above the boolean one (greater than, less than, equals, priority, skill,
\* duration, group, category, email)
parseAndExecuteQuery(query) ==
    LET
        matchesQuery(item, q, schema) ==
            LET has(word) == includes(q, word)
                stop == { <<"w","i","t","h">>, <<"h","a","v","i","n","g">>, <<"t","h","a","t">>,
                          <<"a","r","e">>, <<"i","s">>, <<"t","h","e">>, <<"a","n","d">>,
                          <<"o","r">>, <<"a","l","l">>, <<"i","n">>, <<"o","f">> }
                words == SelectSeq(split(q, " "), LAMBDA word : word \notin stop)
            IN  IF \/ has(Txt.true) \/ has(<<"f","a","l","s","e">>)
                   \/ has(<<"e","n","a","b","l","e","d">>) \/ has(<<"d","i","s","a","b","l","e","d">>)
                THEN \E c \in 1..Len(schema.columns) :
                        /\ schema.columns[c].type = "boolean"
                        /\ Truthy(Get(item, schema.columns[c].name))
                             <=> (has(Txt.true) \/ has(<<"e","n","a","b","l","e","d">>))
                ELSE \E w \in 1..Len(words) :
                        \E value \in Range(item) :
                            Truthy(value) /\ includes(toLowerCase(String(value)), words[w])
        lowerQuery == toLowerCase(query)
        named == { i \in 1..Len(order) : includes(lowerQuery, toLowerCase(order[i])) }
        targetTable == order[Max(named)]
        tableData == RowsOf(data, targetTable)
        hits == { i \in 1..Len(tableData) :
                    matchesQuery(tableData[i], lowerQuery, schemas[targetTable]) }
    IN  [table |-> targetTable,
         indices |-> [k \in 1..Cardinality(hits) |->
                         (CHOOSE i \in hits : Cardinality({ j \in hits : j < i }) = k - 1) - 1]]

\* processNaturalLanguageQuery, then handleNaturalLanguageSearch: the user asks for
\* the rows of a loaded table that are true, false, or hold abc
handleNaturalLanguageSearch ==
    \E tableName \in DOMAIN data :
        \E word \in { Txt.true, <<"f","a","l","s","e">>, Txt.abc } :
            /\ nOps < MaxOps
            /\ searchResults' = parseAndExecuteQuery(tableName \o <<" ">> \o word)
            /\ toasts' = Append(toasts, "success")
            /\ nOps' = nOps + 1
            /\ last' = Call("handleNaturalLanguageSearch", tableName, 0, <<>>, Undefined,
                            word)
            /\ UNCHANGED <<order, data, schemas, validationErrors, detectVars, fnArgs,
                           fnRet, isProcessing, ruleVars, exportVars, fileJob, editingCell,
                           searchTerm>>

\* filteredIndices of the DataGrid of tableName in the current render
filteredIndices(tableName) ==
    LET rows == data[tableName]
        found == IF searchResults.table = tableName THEN searchResults.indices ELSE <<>>
        typed == IF tableName \in DOMAIN searchTerm THEN searchTerm[tableName] ELSE <<>>
        kept == { i \in 1..Len(rows) :
                    \E value \in Range(rows[i]) :
                        includes(toLowerCase(String(value)), toLowerCase(typed)) }
    IN  IF Len(found) > 0 THEN found
        ELSE IF typed # <<>>
        THEN [k \in 1..Cardinality(kept) |->
                 (CHOOSE i \in kept : Cardinality({ j \in kept : j < i }) = k - 1) - 1]
        ELSE [i \in 1..Len(rows) |-> i - 1]

\* startEdit(rowIndex, column, currentValue) on a cell the grid shows: the grid
\* renders when every row of filteredData is a row of data (row[column.name] of an
\* undefined row throws in the render). shown is not state of the grid: it records
\* the row of data the clicked cell displayed
startEdit ==
    \E tableName \in DOMAIN data :
        /\ Len(data[tableName]) > 0
        /\ \A k \in 1..Len(filteredIndices(tableName)) :  \* every row shown is a row
              filteredIndices(tableName)[k] + 1 \in 1..Len(data[tableName])
        /\ \E rowIndex \in 0..(Len(filteredIndices(tableName)) - 1) :
              \E c \in 1..Len(schemas[tableName].columns) :
                  editingCell' = SetKey(editingCell, tableName,
                                        [row |-> rowIndex,
                                         column |-> schemas[tableName].columns[c].name,
                                         shown |-> filteredIndices(tableName)[rowIndex + 1]])
        /\ UNCHANGED <<homeVars, detectVars, fnArgs, fnRet, fileVars, ruleVars, exportVars,
                       fileJob, searchTerm, searchResults>>

\* onChange of the search box of a grid, which is shown when the grid is given no
\* searchResults: setSearchTerm(e.target.value)
setSearchTerm ==
    \E tableName \in DOMAIN data :
        \E text \in { <<>>, <<"f","a","l","s","e">> } :
            /\ Len(data[tableName]) > 0
            /\ ~(searchResults.table = tableName /\ Len(searchResults.indices) > 0)
            /\ searchTerm' = SetKey(searchTerm, tableName, text)
            /\ UNCHANGED <<homeVars, detectVars, fnArgs, fnRet, fileVars, ruleVars,
                           exportVars, fileJob, editingCell, searchResults>>

\* saveEdit of the DataGrid, from the input of the cell in edit, which is shown when
\* the grid has a row editingCell.row; the user has typed text into it
gridSaveEdit ==
    \E tableName \in DOMAIN editingCell :
        \E text \in EditTexts :
            LET cell == editingCell[tableName]
                actualRowIndex == filteredIndices(tableName)[cell.row + 1]
            IN  /\ nOps < MaxOps
                /\ Len(data[tableName]) > 0
                /\ \A k \in 1..Len(filteredIndices(tableName)) :
                      filteredIndices(tableName)[k] + 1 \in 1..Len(data[tableName])
                /\ cell.row < Len(filteredIndices(tableName))
                /\ updateData(tableName, actualRowIndex, cell.column, Str(text))
                /\ editingCell' = [t \in DOMAIN editingCell \ {tableName} |-> editingCell[t]]
                /\ nOps' = nOps + 1
                /\ last' = Call("saveEdit", tableName, actualRowIndex, cell.column,
                                Str(text), <<>>)
                /\ UNCHANGED <<detectVars, fnArgs, fnRet, fileVars, ruleVars, exportVars,
                               fileJob, searchTerm, searchResults>>

\* applyAllAutoFixes of the AI assistant: onApplyFix(error) for every auto-fixable
\* finding, each call with the data, schemas and handlers of one render. setData and
\* setValidationErrors of a call see what the calls before it have set. When a call
\* names a table that is not loaded, prev[tableName].map throws as the queue of
\* updaters runs in the next render, and none of the updates is committed
applyAllAutoFixes ==
    LET autoFixableErrors == SelectSeq(validationErrors, LAMBDA error : error.autoFixable)
        throws == \E i \in 1..Len(autoFixableErrors) :
                     /\ tableNameOf(autoFixableErrors[i]) \notin DOMAIN data
                     /\ fixedValueOf(autoFixableErrors[i],
                                     tableNameOf(autoFixableErrors[i])) # Undefined
        RECURSIVE forEach(_, _, _)
        forEach(errors, d, found) ==
            IF errors = <<>> THEN [data |-> d, validationErrors |-> found]
            ELSE LET error == Head(errors)
                     tableName == tableNameOf(error)
                     fixedValue == fixedValueOf(error, tableName)
                 IN  forEach(Tail(errors),
                             IF fixedValue # Undefined
                             THEN [d EXCEPT ![tableName] =
                                     [i \in 1..Len(d[tableName]) |->
                                         IF i - 1 = error.row
                                         THEN SetKey(d[tableName][i], error.column, fixedValue)
                                         ELSE d[tableName][i]]]
                             ELSE d,
                             IF fixedValue # Undefined /\ tableName \in DOMAIN schemas
                             THEN runValidation(found, tableName,
                                      << SetKey(RowAt(tableName, error.row), error.column,
                                                fixedValue) >>,
                                      schemas[tableName], order, data, schemas)
                             ELSE found)
        after == IF throws THEN [data |-> data, validationErrors |-> validationErrors]
                 ELSE forEach(autoFixableErrors, data, validationErrors)
    IN  /\ nOps < MaxOps
        /\ Len(autoFixableErrors) > 0
        /\ data' = after.data
        /\ validationErrors' = after.validationErrors
        /\ toasts' = Append(toasts, "success")
        /\ nOps' = nOps + 1
        /\ last' = Call("applyAllAutoFixes", <<>>, Len(autoFixableErrors), <<>>, Undefined,
                        <<>>)
        /\ UNCHANGED <<order, schemas, detectVars, fnArgs, fnRet, isProcessing, ruleVars,
                       exportVars, gridVars>>

NextGrid ==
    \/ UploadGrid
    \/ handleNaturalLanguageSearch
    \/ startEdit
    \/ setSearchTerm
    \/ gridSaveEdit
    \/ ApplyFix
    \/ applyAllAutoFixes

SpecGrid == Init /\ [][NextGrid]_vars

----------------------------------------------------------------------------
(* The rules creator: every handler ends in onRulesChange = setBusinessRules *)

\* What the user types as a rule or as a new description, and the aiSuggestions prop
RuleTexts == { "keep the night shift short", "Tasks TA, TB run together" }

\* parseNaturalLanguageRule: the co-run pattern, else the generic custom rule
parseNaturalLanguageRule(text, id) ==
    [id |-> id,
     type |-> IF text = "Tasks TA, TB run together" THEN "coRun" ELSE "custom",
     description |-> text, enabled |-> TRUE]

\* processNaturalLanguageRule up to its await: the call keeps the rules prop of the
\* render it was made in; the button is disabled while isProcessing
StartNaturalLanguage ==
    \E text \in RuleTexts :
        /\ nOps < MaxOps
        /\ nlJob = <<>>
        /\ nlJob' = <<[text |-> text, rules |-> businessRules]>>
        /\ nOps' = nOps + 1
        /\ last' = Call("processNaturalLanguageRule", <<>>, 0, <<>>, Undefined, 0)
        /\ UNCHANGED <<gridVars, order, data, schemas, validationErrors, detectVars, fnArgs, fnRet,
                       fileVars, businessRules, now, exportVars>>

\* processNaturalLanguageRule after the 1500 ms: onRulesChange([...rules, newRule])
FinishNaturalLanguage ==
    /\ nlJob # <<>>
    /\ now' = now + 1
    /\ businessRules' = Append(nlJob[1].rules,
                               parseNaturalLanguageRule(nlJob[1].text, now'))
    /\ nlJob' = <<>>
    /\ toasts' = Append(toasts, "success")
    /\ last' = Call("onRulesChange", <<>>, 0, <<>>, Undefined, now')
    /\ UNCHANGED <<gridVars, order, data, schemas, validationErrors, nOps, detectVars, fnArgs,
                   fnRet, isProcessing, exportVars>>

\* A handler that calls onRulesChange(rules) in the render it is clicked in
ruleHandler(op, id, rules) ==
    /\ nOps < MaxOps
    /\ businessRules' = rules
    /\ toasts' = IF op = "toggleRule" THEN toasts ELSE Append(toasts, "success")
    /\ nOps' = nOps + 1
    /\ last' = Call(op, <<>>, 0, <<>>, Undefined, id)
    /\ UNCHANGED <<gridVars, order, data, schemas, validationErrors, detectVars, fnArgs, fnRet,
                   isProcessing, nlJob, exportVars>>

createManualRule ==
    /\ now' = now + 1
    /\ ruleHandler("createManualRule", now',
                   Append(businessRules,
                          [id |-> now', type |-> "coRun",
                           description |-> "Tasks TA must run together",
                           enabled |-> TRUE]))

acceptAISuggestion ==
    \E suggestion \in { [id |-> "ai-corun", type |-> "aiGenerated",
                         description |-> "AI detected high-value pattern",
                         enabled |-> FALSE] } :
        /\ now' = now + 1
        /\ ruleHandler("acceptAISuggestion", now',
                       Append(businessRules, [suggestion EXCEPT !.id = now']))

toggleRule ==
    \E i \in 1..Len(businessRules) :
        /\ ruleHandler("toggleRule", businessRules[i].id,
                       [j \in 1..Len(businessRules) |->
                           IF businessRules[j].id = businessRules[i].id
                           THEN [businessRules[j] EXCEPT !.enabled = ~@]
                           ELSE businessRules[j]])
        /\ now' = now

deleteRule ==
    \E i \in 1..Len(businessRules) :
        /\ ruleHandler("deleteRule", businessRules[i].id,
                       SelectSeq(businessRules,
                                 LAMBDA rule : rule.id # businessRules[i].id))
        /\ now' = now

\* startEdit(rule), a new description typed, then saveEdit
saveEdit ==
    \E i \in 1..Len(businessRules) :
        \E editDescription \in RuleTexts :
            /\ ruleHandler("saveEdit", businessRules[i].id,
                           [j \in 1..Len(businessRules) |->
                               IF businessRules[j].id = businessRules[i].id
                               THEN [businessRules[j] EXCEPT
                                         !.description = editDescription]
                               ELSE businessRules[j]])
            /\ now' = now

NextRules ==
    \/ StartNaturalLanguage
    \/ FinishNaturalLanguage
    \/ createManualRule
    \/ acceptAISuggestion
    \/ toggleRule
    \/ deleteRule
    \/ saveEdit

SpecRules == Init /\ [][NextRules]_vars

----------------------------------------------------------------------------
(* The export controls: exportAll, whoever calls it.  The Export button, one of its *)
(* callers, is disabled in a render with isExporting or without canExport.          *)

MaxToasts == 4

getCriticalErrorsAll(errors) == Len(errors)

getCriticalErrors(errors) ==
    Cardinality({ i \in 1..Len(errors) : errors[i].severity = "error" })

\* exportAll up to its first await: the early return, else the call keeps the data
\* prop of the render it was made in
exportAll ==
    /\ Len(toasts) + Len(exportJob) < MaxToasts
    /\ IF getCriticalErrors(validationErrors) > 0
       THEN /\ toasts' = Append(toasts, "error")
            /\ UNCHANGED exportVars
       ELSE /\ exportJob' = Append(exportJob, [order |-> order, data |-> data])
            /\ UNCHANGED <<toasts, downloads>>
    /\ nOps' = nOps + 1
    /\ last' = Call("exportAll", <<>>, 0, <<>>, Undefined, <<>>)
    /\ UNCHANGED <<gridVars, order, data, schemas, validationErrors, detectVars, fnArgs, fnRet,
                   isProcessing, ruleVars>>

\* exportAll after its five waits: downloadCSV for every table with rows, then
\* downloadJSON of the configuration and of the schemas
finishExport ==
    /\ exportJob # <<>>
    /\ LET job == Head(exportJob)
           tables == SelectSeq(job.order, LAMBDA t : Len(job.data[t]) > 0)
       IN  downloads' = downloads
                            \o [i \in 1..Len(tables) |->
                                   [kind |-> "_cleaned.csv", table |-> tables[i]]]
                            \o << [kind |-> "database_config.json", table |-> <<>>],
                                  [kind |-> "database_schema.json", table |-> <<>>] >>
    /\ exportJob' = Tail(exportJob)
    /\ toasts' = Append(toasts, "success")
    /\ last' = Call("exportAll finished", <<>>, 0, <<>>, Undefined, <<>>)
    /\ UNCHANGED <<gridVars, order, data, schemas, validationErrors, nOps, detectVars, fnArgs,
                   fnRet, isProcessing, ruleVars>>

NextExport == Upload \/ exportAll \/ finishExport

SpecExport == Init /\ [][NextExport]_vars

----------------------------------------------------------------------------
(* Properties of detectColumnSchema, stated on SpecDetect *)

Detected_done == dcOut # NoColumn

\* The scores detectColumnSchema computed for the column at hand
dcScores == typeScores(toLowerCase(dcName), sampleOf(columnValues(dcName, dcRows)))

\* The candidate types whose score no other candidate's score exceeds
TopTypes(scores) ==
    { t \in Range(TypeOrder) :
        ~IsNaNScore(scores[t]) /\ \A u \in Range(TypeOrder) : ~GT(scores[u], scores[t]) }

FirstDeclared(S) ==
    TypeOrder[Min({ i \in 1..Len(TypeOrder) : TypeOrder[i] \in S })]

\* C6: when the highest candidate score divided by 100 is below 0.3, the
\* emitted type of the column is string
C6_LowConfidenceIsString ==
    (Detected_done /\ \A t \in TopTypes(dcScores) :
                        LT(Score(dcScores[t].num, dcScores[t].den * 100), Score(3, 10)))
        => dcOut.type = "string"

\* C7: when two or more candidate types share the highest score, the type
\* that comes first in the declaration order of the candidates is picked
C7_TieFirstDeclared ==
    (Detected_done /\ Cardinality(TopTypes(dcScores)) >= 2)
        => bestTypeOf(dcScores) = FirstDeclared(TopTypes(dcScores))

\* C8: the confidence of every detected column is a defined number between 0
\* and 1, also for a column whose sampled values are all empty
C8_ConfidenceDefined ==
    Detected_done =>
        /\ ~IsNaNScore(dcOut.confidence)
        /\ 0 <= dcOut.confidence.num
        /\ dcOut.confidence.num <= dcOut.confidence.den

\* A column with no non-empty value has been detected
C8_Witness == Detected_done /\ columnValues(dcName, dcRows) = <<>>

\* The rows whose value is null, undefined or the empty string
missingCount(columnName, rows) ==
    Cardinality({ i \in 1..Len(rows) : IsEmptyRaw(Get(rows[i], columnName)) })

\* C9: a column is required exactly when fewer than 10% of the rows have a
\* missing value (null, undefined or ''); 0 and false are not missing
C9_RequiredIffFewMissing ==
    Detected_done =>
        (dcOut.required <=> missingCount(dcName, dcRows) * 10 < Len(dcRows))

----------------------------------------------------------------------------
(* Properties of the Home page's findings, stated on Spec *)

\* The findings of validationErrors that belong to a table, in order
OwnedBy(errors, tableName) ==
    SelectSeq(errors, LAMBDA f : tableNameOf(f) = tableName)

\* What the schema-compliance pass yields for every current row of a table
rowFindingsOf(tableName) ==
    Flatten([i \in 1..Len(data[tableName]) |->
                validateRowAgainstSchema(data[tableName][i], i - 1, tableName,
                                         schemas[tableName])])

\* What the validation passes yield for a table on the current data and schemas
ExpectedOf(tableName) ==
    Range(rowFindingsOf(tableName))
        \cup Range(Flatten([r \in 1..Len(schemas[tableName].relationships) |->
                    relationshipFindings(data, tableName,
                                         schemas[tableName].relationships[r])]))
        \cup Range(burnoutFindings(data, tableName, schemas[tableName]))

\* C1: in every reachable state the findings of each loaded table are exactly
\* the findings the validation passes yield on its current rows, its current
\* schema and the current rows of the tables it references
C1_FindingsMatchState ==
    \A tableName \in DOMAIN data :
        Range(OwnedBy(validationErrors, tableName)) = ExpectedOf(tableName)

\* C2: after an upload or a cell edit, there is an unknown_reference finding
\* for (T, R, C) exactly when row R of T has a non-empty value in C that is no
\* value of column C in the current rows of the target table
C2_UnknownReferenceIff ==
    last.op \in {"handleDataUpload", "updateData"} =>
        \A tableName \in DOMAIN schemas :
            \A r \in 1..Len(schemas[tableName].relationships) :
                \A i \in 1..Len(data[tableName]) :
                    LET rel == schemas[tableName].relationships[r]
                        value == Get(data[tableName][i], rel.column)
                        targetData == RowsOf(data, rel.table)
                        targetIds == { Get(targetData[j], rel.column) :
                                          j \in 1..Len(targetData) }
                    IN  (\E f \in Range(validationErrors) :
                            /\ f.type = "unknown_reference"
                            /\ tableNameOf(f) = tableName
                            /\ f.row = i - 1
                            /\ f.column = rel.column)
                        <=> (~IsEmptyRaw(value) /\ value \notin targetIds)

\* C3: a validation run for one table leaves the findings of every other
\* table as they were: none removed, none added, none duplicated
C3_OtherFindingsKept ==
    [][ last'.op \in {"handleDataUpload", "updateData"} =>
            \A tableName \in DOMAIN data :
                tableName # last'.table =>
                    OwnedBy(validationErrors', tableName)
                        = OwnedBy(validationErrors, tableName) ]_vars

\* C4: after updateData(T, r, field, value) every finding of T has a valid
\* row index k and is a violation of row k's current content, and every
\* violation of a current row of T, the edited one included, has its finding
\* with that row's index
C4_EditKeepsRowFindings ==
    last.op = "updateData" =>
        /\ \A f \in Range(OwnedBy(validationErrors, last.table)) :
              /\ f.row \in 0..(Len(data[last.table]) - 1)
              /\ f \in ExpectedOf(last.table)
        /\ Range(rowFindingsOf(last.table)) \subseteq Range(validationErrors)

\* C5: after applyAutoFix has fixed cell (T, r, c) the cell holds the fix value
\* and no finding of severity error is left for that cell
C5_FixClearsCell ==
    (last.op = "applyAutoFix" /\ last.value # Undefined) =>
        /\ Get(RowAt(last.table, last.row), last.column) = last.value
        /\ ~\E f \in Range(validationErrors) :
              /\ tableNameOf(f) = last.table
              /\ f.row = last.row
              /\ f.column = last.column
              /\ f.severity = "error"

\* C10: the schema-compliance pass emits a missing_required finding of
\* severity error for a row and a column exactly when the column is required
\* and the value is '', null or undefined (0 and false are present values), and
\* the finding is autoFixable exactly when the column is a number or a boolean
C10_MissingRequiredIff ==
    \A tableName \in DOMAIN data :
        \A i \in 1..Len(data[tableName]) :
            \A c \in 1..Len(schemas[tableName].columns) :
                LET column == schemas[tableName].columns[c]
                    emitted == { f \in Range(validateRowAgainstSchema(
                                            data[tableName][i], i - 1, tableName,
                                            schemas[tableName])) :
                                    f.type = "missing_required" /\ f.column = column.name }
                IN  /\ (emitted # {}) <=>
                           (column.required /\ IsEmptyRaw(Get(data[tableName][i], column.name)))
                    /\ \A f \in emitted :
                           /\ f.severity = "error"
                           /\ f.autoFixable <=> column.type \in {"number", "boolean"}

----------------------------------------------------------------------------
(* Properties of the validation passes and of the fixes *)

\* The columns of a schema whose name contains load or capacity
loadColumnsOf(schema) ==
    { i \in 1..Len(schema.columns) :
        \/ includes(toLowerCase(schema.columns[i].name), <<"l","o","a","d">>)
        \/ includes(toLowerCase(schema.columns[i].name),
                    <<"c","a","p","a","c","i","t","y">>) }

\* C11: in a table classified as workers, every column whose name contains
\* load or capacity is checked: a row gets a burnout_risk finding (warning, not
\* autoFixable) for the column exactly when its numeric value there exceeds 8
C11_EveryLoadColumnChecked ==
    (fnRet.done /\ fnArgs.fn = "validateAdvancedConstraints") =>
        \A tableName \in DOMAIN fnArgs.page.data :
            LET schema == fnArgs.page.schemas[tableName]
                rows == fnArgs.page.data[tableName]
            IN  schema.aiClassification.entityType = "workers" =>
                    \A c \in loadColumnsOf(schema) : \A i \in 1..Len(rows) :
                        LET load == parseInt(String(Get(rows[i], schema.columns[c].name)))
                        IN  (\E f \in Range(fnRet.value) :
                                /\ f.type = "burnout_risk"
                                /\ f.severity = "warning"
                                /\ ~f.autoFixable
                                /\ f.row = i - 1
                                /\ f.column = schema.columns[c].name
                                /\ tableNameOf(f) = tableName)
                            <=> (~isNaN(load) /\ load.n > BurnoutThreshold)

\* The value the fix of a missing_required finding is to write: the column's
\* validation.min, else its validation.max, else the default of its type
requiredFixOf(column) ==
    IF column.validation.defined /\ column.validation.hasMin THEN Num(column.validation.min)
    ELSE IF column.validation.defined /\ column.validation.hasMax
    THEN Num(column.validation.max)
    ELSE CASE column.type = "number"  -> Num(0)
           [] column.type = "boolean" -> Bool(FALSE)
           [] column.type = "string"  -> Str(<<"d","e","f","a","u","l","t">>)
           [] OTHER -> Undefined

\* C12: after applyAutoFix on a missing_required finding the cell holds the
\* column's validation.min if defined, else its validation.max if defined,
\* else 0 for a number, false for a boolean, "default" for a string column
C12_RequiredFixValue ==
    (last.op = "applyAutoFix" /\ endsWith(last.id, <<"-","r","e","q","u","i","r","e","d">>)
        /\ columnIndex(last.table, last.column) # 0)
    => LET column == schemas[last.table].columns[columnIndex(last.table, last.column)]
       IN  requiredFixOf(column) # Undefined =>
               Get(RowAt(last.table, last.row), last.column) = requiredFixOf(column)

\* A text that begins, after blanks and an optional sign, with a digit
StartsNumeric(s) ==
    \E i \in 1..Len(s) :
        /\ IsDigit(s[i])
        /\ \E k \in 0..(i - 1) :
              /\ \A j \in 1..k : IsSpace(s[j])
              /\ (i = k + 1 \/ (i = k + 2 /\ s[k + 1] \in {"+", "-"}))

\* A text of the shape local@domain.tld: no blank, one @ with text before it, and
\* after it a dot with text on both sides
HasEmailShape(s) ==
    LET parts == split(s, "@")
    IN  /\ Len(parts) = 2
        /\ parts[1] # <<>>
        /\ \A i \in 1..Len(s) : ~IsSpace(s[i])
        /\ \E i \in 2..(Len(parts[2]) - 1) : parts[2][i] = "."

\* C13: validateColumnType returns a type_mismatch finding of severity error
\* for a non-empty value exactly when the column is a number and the value does
\* not parse as a number (autoFixable) or the column is an email and the value
\* has not the shape local@domain.tld (not autoFixable); no finding otherwise
C13_TypeMismatchIff ==
    (fnRet.done /\ fnArgs.fn = "validateColumnType") =>
        LET text == String(fnArgs.value)
            type == fnArgs.column.type
        IN  /\ Len(fnRet.value) <= 1
            /\ (fnRet.value # <<>>) <=>
                  \/ (type = "number" /\ ~StartsNumeric(text))
                  \/ (type = "email" /\ ~HasEmailShape(text))
            /\ \A f \in Range(fnRet.value) :
                  /\ f.type = "type_mismatch"
                  /\ f.severity = "error"
                  /\ f.autoFixable <=> (type = "number")
                  /\ f.row = fnArgs.index
                  /\ f.column = fnArgs.column.name

\* An email column's value without a dot after the @ has got its finding
C13_Witness ==
    /\ fnRet.done
    /\ fnArgs.fn = "validateColumnType"
    /\ fnArgs.column.type = "email"
    /\ fnArgs.value = Str(Txt.nodot)
    /\ fnRet.value # <<>>

----------------------------------------------------------------------------
(* Properties of the upload pipeline's functions *)

\* C14: cleanValue is idempotent: cleaning a cleaned value with the same
\* column schema gives the cleaned value again, for every column type
C14_CleanIdempotent ==
    (fnRet.done /\ fnArgs.fn = "cleanValue") =>
        cleanValue(fnRet.value, fnArgs.column) = fnRet.value

\* The bracketed list of the comma-separated tokens of t, each trimmed and
\* wrapped in double quotes
quotedTokens(t) ==
    LET tokens == split(t, ",")
    IN  <<"[">> \o join([i \in 1..Len(tokens) |-> <<"\"">> \o trim(tokens[i]) \o <<"\"">>],
                        <<",">>)
               \o <<"]">>

\* C15 as the specification states it: for an array column cleanValue returns
\* the trimmed text when it parses as a JSON array (single quotes turned into
\* double quotes), else the bracketed list of its quoted comma-separated
\* tokens when it holds a comma, else the trimmed text
C15_ArrayAsStated ==
    (fnRet.done /\ fnArgs.fn = "cleanValue" /\ fnArgs.column.type = "array"
        /\ ~IsEmptyRaw(fnArgs.value))
    => LET t == trim(String(fnArgs.value))
       IN  fnRet.value =
              IF IsJSONArray(replaceAll(t, "'", "\"")) THEN Str(t)
              ELSE IF includes(t, <<",">>) THEN Str(quotedTokens(t))
              ELSE Str(t)

\* C15: for an array column cleanValue returns the trimmed text when it parses
\* as a JSON array (single quotes turned into double quotes); the trimmed text
\* in brackets when it parses as a JSON value that is no array; else the
\* bracketed list of its quoted comma-separated tokens when it holds a comma;
\* else the trimmed text
C15_ArrayClean ==
    (fnRet.done /\ fnArgs.fn = "cleanValue" /\ fnArgs.column.type = "array"
        /\ ~IsEmptyRaw(fnArgs.value))
    => LET t == trim(String(fnArgs.value))
           q == replaceAll(t, "'", "\"")
       IN  fnRet.value =
              IF IsJSONArray(q) THEN Str(t)
              ELSE IF jsonParses(q) THEN Str(<<"[">> \o t \o <<"]">>)
              ELSE IF includes(t, <<",">>) THEN Str(quotedTokens(t))
              ELSE Str(t)

\* An array column's text that is a JSON number has been cleaned
C15_Witness ==
    /\ fnRet.done
    /\ fnArgs.fn = "cleanValue"
    /\ fnArgs.column.type = "array"
    /\ fnArgs.value = Str(Txt.five)

\* The categories whose score no other category's score exceeds
TopEntities(scores) ==
    { e \in Range(EntityOrder) : \A u \in Range(EntityOrder) : scores[u] <= scores[e] }

\* C16: classifyEntityType returns the category of the highest score, and of
\* two or three categories that tie for it (all scores 0 included) the one
\* that comes first in the order clients, workers, tasks
C16_EntityTieFirstDeclared ==
    (fnRet.done /\ fnArgs.fn = "classifyEntityType") =>
        LET top == TopEntities(entityScores(fnArgs.tableName, fnArgs.columns,
                                            fnArgs.fileName))
        IN  fnRet.value.entityType
                = EntityOrder[Min({ i \in 1..Len(EntityOrder) : EntityOrder[i] \in top })]

\* A column name in lower case with everything but letters and digits left out
plainName(name) ==
    SelectSeq(toLowerCase(name), LAMBDA ch : IsAlpha(ch) \/ IsDigit(ch))

\* C17: detectRelationships emits for every column whose lower-cased name,
\* punctuation ignored, contains taskid, workerid or clientid one many-to-one
\* relationship to tasks, workers or clients via that column, and nothing else
C17_RelationshipPerKeyColumn ==
    (fnRet.done /\ fnArgs.fn = "detectRelationships") =>
        /\ \A c \in 1..Len(fnArgs.columns) : \A k \in 1..Len(RelationKeys) :
              LET key == plainName(CHOOSE x \in RelationKeys[k].keys : TRUE)
                  hits == { i \in 1..Len(fnRet.value) :
                              /\ fnRet.value[i].column = fnArgs.columns[c].name
                              /\ fnRet.value[i].table = RelationKeys[k].table }
              IN  Cardinality(hits) =
                      IF includes(plainName(fnArgs.columns[c].name), key) THEN 1 ELSE 0
        /\ \A r \in Range(fnRet.value) :
              /\ r.type = "many-to-one"
              /\ \E c \in 1..Len(fnArgs.columns) : r.column = fnArgs.columns[c].name


----------------------------------------------------------------------------
(* Properties of the panels around the page *)

\* C18: when a file without data rows has been processed, by the CSV path or by the
\* Excel path, an error toast has been shown for it, and data, schemas and
\* validationErrors are what they were before
C18_EmptyFileAborted ==
    [][ (last'.op = "processFile" /\ nOps' = nOps + 1)
            => /\ Len(toasts') = Len(toasts) + 1
               /\ toasts'[Len(toasts')] = "error"
               /\ UNCHANGED <<data, schemas, validationErrors>> ]_vars


\* C19: whatever the rule operations and their order, a rule that is in the list
\* stays in it through every step that is not deleteRule called with its id
C19_RuleLeavesOnlyByDelete ==
    [][ \A i \in 1..Len(businessRules) :
            \/ \E j \in 1..Len(businessRules') :
                   businessRules'[j].id = businessRules[i].id
            \/ /\ last'.op = "deleteRule"
               /\ last'.id = businessRules[i].id
               /\ nOps' = nOps + 1 ]_vars


HasSeverity(severity) ==
    \E i \in 1..Len(validationErrors) : validationErrors[i].severity = severity

\* C20: a call of exportAll made while validationErrors holds a finding of severity
\* error downloads nothing, then or later; a call made while it holds none, warnings
\* or not, is taken up, and when it ends files have been downloaded
C20_ExportBlockedByErrorsOnly ==
    [][ /\ (last'.op = "exportAll" /\ nOps' = nOps + 1)
            => IF HasSeverity("error")
               THEN UNCHANGED <<exportJob, downloads>>
               ELSE /\ exportJob' = Append(exportJob, [order |-> order, data |-> data])
                    /\ downloads' = downloads
        /\ Len(exportJob') < Len(exportJob) => Len(downloads') > Len(downloads) ]_vars

\* an export was taken up while only warnings were held, and its files are downloaded
C20_Witness ==
    /\ last.op = "exportAll finished"
    /\ HasSeverity("warning")
    /\ ~HasSeverity("error")
    /\ downloads # <<>>


----------------------------------------------------------------------------
(* Properties of the exported CSV text *)

\* The text a cell holds: nothing for a null, undefined or empty cell
cellText(value) == IF value.k \in {"null", "undefined"} THEN <<>> ELSE String(value)

\* text between double quotes, every double quote of it written twice
quoted(text) ==
    LET twice(t) == Flatten([i \in 1..Len(t) |->
                                IF t[i] = "\"" THEN <<"\"", "\"">> ELSE <<t[i]>>])
    IN  <<"\"">> \o twice(text) \o <<"\"">>

\* C21: the text downloadCSV writes is one header line, then one line per row; in a
\* line a cell value that contains a comma stands between double quotes with its double
\* quotes doubled, and a value without a comma stands as it is
C21_CsvLines ==
    (fnRet.done /\ fnArgs.fn = "downloadCSV") =>
        LET headers == fnArgs.headers
            rows == fnArgs.data
            expected(row, header) ==
                IF includes(cellText(row[header]), <<",">>)
                THEN quoted(cellText(row[header]))
                ELSE cellText(row[header])
        IN  /\ fnRet.value.download
            /\ fnRet.value.csvContent =
                   join(<<join(headers, <<",">>)>>
                            \o [i \in 1..Len(rows) |->
                                   join([j \in 1..Len(headers) |->
                                            expected(rows[i], headers[j])], <<",">>)],
                        <<"\n">>)


----------------------------------------------------------------------------
(* Properties of the Home page's tables *)

\* C22: an upload of table T makes data[T] the uploaded rows and schemas[T] the
\* detected schema, whatever T held before, and leaves the rows and the schema of
\* every other table as they were
C22_UploadReplacesOneTable ==
    [][ (last'.op = "handleDataUpload" /\ nOps' = nOps + 1) =>
            LET T == last'.table
            IN  /\ \E file \in Files :
                       /\ stripExtension(file.fileName) = T
                       /\ data'[T] = Detected[file].cleanedData
                       /\ schemas'[T] = Detected[file].detectedSchema
                /\ DOMAIN data' = DOMAIN data \cup {T}
                /\ DOMAIN schemas' = DOMAIN schemas \cup {T}
                /\ \A U \in DOMAIN data \ {T} :
                       data'[U] = data[U] /\ schemas'[U] = schemas[U] ]_vars

\* the first table has been uploaded again while a second table is loaded
C22_Witness ==
    /\ last.op = "handleDataUpload"
    /\ Len(order) = 2
    /\ last.table = order[1]
    /\ Len(toasts) = 3


----------------------------------------------------------------------------
(* Properties of the detected column flags *)

\* The rows of dcRows whose cell of column dcName is not null, undefined or ''
Filled == { i \in 1..Len(dcRows) :
              Get(dcRows[i], dcName) \notin {Null, Undefined, EmptyStr} }

\* C23: the detected column is unique exactly when its non-empty values are pairwise
\* different and there is more than one of them; with a single row it is not unique
C23_UniqueIff ==
    (dcOut # NoColumn) =>
        /\ dcOut.unique <=>
               /\ \A i, j \in Filled :
                      Get(dcRows[i], dcName) = Get(dcRows[j], dcName) => i = j
               /\ Cardinality(Filled) > 1
        /\ Len(dcRows) = 1 => ~dcOut.unique

\* a column of two different non-empty values has been detected as unique
C23_Witness ==
    /\ dcOut # NoColumn
    /\ dcOut.unique
    /\ Cardinality(Filled) = 2


----------------------------------------------------------------------------
(* Properties of the ids of the findings *)

\* C24: no two findings of validationErrors have the same id
C24_FindingIdsDiffer ==
    \A i, j \in 1..Len(validationErrors) :
        validationErrors[i].id = validationErrors[j].id => i = j

----------------------------------------------------------------------------
(* Properties of the processing flag of the file upload *)

\* C25: every processFile attempt ends with isProcessing[tableName] false: whenever
\* the flag of a table is set, it is later cleared
C25_ProcessingCleared ==
    \A tableName \in { stripExtension(file.fileName) : file \in ProcessFiles } :
        (tableName \in DOMAIN isProcessing /\ isProcessing[tableName])
            ~> (tableName \in DOMAIN isProcessing /\ ~isProcessing[tableName])

----------------------------------------------------------------------------
(* Properties of the data grids and of the search, stated on SpecGrid *)

\* C26: saveEdit of a grid writes to the row of data whose cell startEdit was
\* invoked on, whatever has happened to the row filter of the grid in between
C26_SaveWritesEditedRow ==
    [][ \A tableName \in DOMAIN editingCell :
            (last'.op = "saveEdit" /\ nOps' = nOps + 1 /\ last'.table = tableName)
                => /\ last'.row = editingCell[tableName].shown
                   /\ data'[tableName][editingCell[tableName].shown + 1]
                          [editingCell[tableName].column] = last'.value ]_vars

\* C27: when searchResults names a loaded table, every index it holds is the index
\* of a row the table has now
C27_SearchIndicesValid ==
    searchResults.table \in DOMAIN data =>
        \A k \in 1..Len(searchResults.indices) :
            searchResults.indices[k] + 1 \in 1..Len(data[searchResults.table])

\* The finding was pushed for a row of tableName: its id is tableName-row-column-...
findingOf(error, tableName) ==
    startsWith(error.id, tableName \o Dash \o NumToText(error.row) \o Dash \o error.column)

\* C28: applyAutoFix on an auto-fixable finding of a loaded table T changes a cell of
\* T and leaves the rows of every other table as they are
C28_FixUpdatesOwnTable ==
    [][ \A i \in 1..Len(validationErrors) :
            (/\ last'.op = "applyAutoFix"
             /\ nOps' = nOps + 1
             /\ validationErrors[i].autoFixable
             /\ validationErrors[i].id = last'.id)
                => \A T \in DOMAIN data :
                      findingOf(validationErrors[i], T)
                          => /\ data'[T] # data[T]
                             /\ \A U \in DOMAIN data \ {T} : data'[U] = data[U] ]_vars

\* C30: after applyAllAutoFixes every cell an auto-fixable finding pointed at holds
\* the fix value of that finding, and every row of a table that had such a finding
\* and that still draws a finding from validateRowAgainstSchema has a finding in
\* validationErrors. Stated for the findings of the tables whose name applyAutoFix
\* reads back from the id of the finding
C30_FixAllKeepsFindings ==
    [][ (last'.op = "applyAllAutoFixes" /\ nOps' = nOps + 1)
            => \A i \in 1..Len(validationErrors) :
                  \A T \in DOMAIN data :
                      (/\ validationErrors[i].autoFixable
                       /\ findingOf(validationErrors[i], T)
                       /\ tableNameOf(validationErrors[i]) = T)
                          => /\ Get(data'[T][validationErrors[i].row + 1],
                                    validationErrors[i].column)
                                  = fixedValueOf(validationErrors[i], T)
                             /\ \A r \in 1..Len(data'[T]) :
                                   validateRowAgainstSchema(data'[T][r], r - 1, T,
                                                            schemas[T]) # <<>>
                                       => \E j \in 1..Len(validationErrors') :
                                             /\ validationErrors'[j].row = r - 1
                                             /\ findingOf(validationErrors'[j], T) ]_vars

----------------------------------------------------------------------------
(* Properties of the cells of the exported CSV text, stated on SpecCall *)

\* C29: downloadCSV writes an empty field for a cell exactly when the cell is empty,
\* null or undefined: the number 0 is written as 0 and the boolean false as false.
\* Stated on the tables of one column, where the line of a row is its one field
C29_PresentValuesKept ==
    (fnRet.done /\ fnArgs.fn = "downloadCSV" /\ Len(fnArgs.headers) = 1) =>
        LET lines == split(fnRet.value.csvContent, "\n")
        IN  /\ Len(lines) = Len(fnArgs.data) + 1
            /\ \A i \in 1..Len(fnArgs.data) :
                  LET value == fnArgs.data[i][fnArgs.headers[1]]
                  IN  /\ lines[i + 1] = <<>> <=> value \in { Null, Undefined, EmptyStr }
                      /\ value = Num(0) => lines[i + 1] = <<"0">>
                      /\ value = Bool(FALSE) => lines[i + 1] = <<"f","a","l","s","e">>

====
